---- MODULE Spec2Model ----
(***************************************************************************)
(* State-machine model of securitykit: the algorithm / policy registries,  *)
(* the pepper strategy pipeline and the Algorithm facade.                  *)
(*                                                                         *)
(* Python strings are modelled as sequences of one-character strings, so   *)
(* that lower(), strip() and the regular expressions of the configuration  *)
(* value parser act on characters as they do in the code.                  *)
(***************************************************************************)
EXTENDS Integers, Sequences, FiniteSets, TLC

VARIABLES
    registry,      \* Registry._registry of the two registries (ordered dict)
    snapshots,     \* _registered_algorithm_snapshots / _registered_policy_snapshots
    firstReg,      \* history: type of the first successful registration per key
    pureReg,       \* history: only register calls have touched the registry
    lastReg,       \* the last registry call and its outcome
    environ,       \* os.environ (the PEPPER_ relevant part)
    facades,       \* the constructed Algorithm facades
    cache,         \* the lru_cache(maxsize=1) of _cached_strategy
    stored,        \* the hash string most recently returned by Algorithm.hash
    last,          \* the last facade / pepper call and its outcome
    loaderConfig,  \* the mapping of the ConfigLoader's ValueSource
    lastBuild,     \* the last PolicyBuilder.build call and its outcome
    havePortalocker, \* bootstrap.HAVE_PORTALOCKER
    envLocal,      \* the file .env.local of the working directory
    lockHolders,   \* the processes inside the body of _file_lock
    boot,          \* per process: its position in ensure_env_config and its os.environ
    fileOrigin,    \* history: who wrote .env.local and how it was edited since
    cal,           \* the locals of calibrate_argon2, its arguments and its result
    calFile,       \* the calibration cache file
    bench,         \* the collected results of a grid benchmark and their analysis
    validation,    \* a PasswordValidator's policy, the password given and the outcome
    race,          \* per process: the locals of its concurrent calibrate_argon2 call
    pepperLog,     \* history: the strategy objects built and the calls that used them
    loadFlags      \* registry._loaded, registry._snapshots_taken and what discovery found

vars == <<registry, snapshots, firstReg, pureReg, lastReg,
          environ, facades, cache, stored, last,
          loaderConfig, lastBuild,
          havePortalocker, envLocal, lockHolders, boot, fileOrigin,
          cal, calFile, bench, validation, race, pepperLog, loadFlags>>

regVars == <<registry, snapshots, firstReg, pureReg, lastReg>>
facadeVars == <<environ, facades, cache, stored, last>>
loaderVars == <<loaderConfig, lastBuild>>
bootVars == <<havePortalocker, envLocal, lockHolders, boot, fileOrigin>>

\* the state outside the registries and the facades
calVars == <<cal, calFile>>
notFlags == <<loaderVars, bootVars, calVars, bench, validation, race, pepperLog>>
notLog == <<loaderVars, bootVars, calVars, bench, validation, race, loadFlags>>
toolVars == <<notLog, pepperLog>>

\* the state a ConfigLoader leaves alone, and the state a bootstrap leaves alone
notLoader == <<regVars, facadeVars, bootVars, calVars, bench, validation, race, pepperLog, loadFlags>>
notBoot == <<regVars, facadeVars, loaderVars, calVars, bench, validation, race, pepperLog, loadFlags>>
notCal == <<regVars, facadeVars, loaderVars, bootVars, bench, validation, race, pepperLog, loadFlags>>
notBench == <<regVars, facadeVars, loaderVars, bootVars, calVars, validation, race, pepperLog, loadFlags>>
notValidator == <<regVars, facadeVars, loaderVars, bootVars, calVars, bench, race, pepperLog, loadFlags>>
notRace == <<regVars, facadeVars, loaderVars, bootVars, bench, validation, pepperLog, loadFlags>>

None == "none"

-----------------------------------------------------------------------------
(* Characters and strings                                                  *)

UpperChars == <<"A", "B", "C", "D", "E", "F", "G", "H", "I", "J", "K", "L", "M",
               "N", "O", "P", "Q", "R", "S", "T", "U", "V", "W", "X", "Y", "Z">>

LowerChars == <<"a", "b", "c", "d", "e", "f", "g", "h", "i", "j", "k", "l", "m",
               "n", "o", "p", "q", "r", "s", "t", "u", "v", "w", "x", "y", "z">>

\* str.lower() on one character
LowerChar(c) ==
    IF \E i \in 1..26 : UpperChars[i] = c
    THEN LowerChars[CHOOSE i \in 1..26 : UpperChars[i] = c]
    ELSE c

\* str.lower()
LowerStr(s) == [i \in 1..Len(s) |-> LowerChar(s[i])]

-----------------------------------------------------------------------------
(* Ordered dictionaries: a sequence of <<key, value>> pairs, keys unique,  *)
(* in insertion order (dict semantics of CPython).                         *)

DictHas(d, k) == \E i \in 1..Len(d) : d[i][1] = k

DictGet(d, k) == d[CHOOSE i \in 1..Len(d) : d[i][1] = k][2]

\* d[k] = v : an existing key keeps its position, a new key goes last
DictSet(d, k, v) ==
    IF DictHas(d, k)
    THEN [i \in 1..Len(d) |-> IF d[i][1] = k THEN <<k, v>> ELSE d[i]]
    ELSE Append(d, <<k, v>>)

\* list(d.keys())
DictList(d) == [i \in 1..Len(d) |-> d[i][1]]

-----------------------------------------------------------------------------
(* Registries                                                              *)

Regs == {"algorithm", "policy"}

\* names passed to register_algorithm / register_policy (the same key in two
\* spellings; the algorithm registry also sees a second key)
RegNamesOf(r) == IF r = "algorithm" THEN {<<"t">>, <<"T">>, <<"u">>}
                 ELSE {<<"t">>, <<"T">>}

RegNames == UNION {RegNamesOf(r) : r \in Regs}

\* class objects (compared by identity)
Classes == {"TempAlgo", "TempAlgo2"}

\* the keys of the built-in algorithms and policies
Argon2Key == <<"a", "r", "g", "o", "n", "2">>
BcryptKey == <<"b", "c", "r", "y", "p", "t">>

RegKeys == {LowerStr(n) : n \in RegNames} \cup {Argon2Key, BcryptKey}

\* Registry.register(key)(cls), overwriting an existing binding
RegistryRegisterOverwrite(d, key, cls) ==
    LET k == LowerStr(key) IN
    [reg |-> DictSet(d, k, cls),
     outcome |-> IF DictHas(d, k) THEN "skipped" ELSE "registered",
     ret |-> cls]

\* Registry.register(key)(cls): the new dict, what happened, the returned class
RegistryRegister(d, key, cls) ==
    LET k == LowerStr(key) IN
    IF DictHas(d, k)
    THEN [reg |-> d, outcome |-> "skipped", ret |-> cls]
    ELSE [reg |-> DictSet(d, k, cls), outcome |-> "registered", ret |-> cls]

\* any(k == lowered and c is cls2 for k, c in snapshots)
SnapshotHas(s, k, c) == \E i \in 1..Len(s) : s[i] = <<k, c>>

\* the snapshot list after register_algorithm / register_policy
SnapshotAfter(s, name, cls2) ==
    LET lowered == LowerStr(name) IN
    IF SnapshotHas(s, lowered, cls2) THEN s ELSE Append(s, <<lowered, cls2>>)

RECURSIVE RestoreInto(_, _)
\* for key, cls in snapshots: registry[key] = cls
RestoreInto(d, s) ==
    IF s = << >> THEN d
    ELSE CHOOSE out \in {RestoreInto(d2, Tail(s)) :
                            d2 \in {DictSet(d, Head(s)[1], Head(s)[2])}} : TRUE

\* restore_from_snapshots(): clear, then replay the snapshot list
RestoreFromSnapshots(s) == RestoreInto(<< >>, s)

\* register_algorithm(name)(cls) and register_policy(name)(cls)
Register(r, name, cls) ==
    \E res \in {RegistryRegister(registry[r], name, cls)}, k \in {LowerStr(name)} :
    /\ registry' = [registry EXCEPT ![r] = res.reg]
    /\ snapshots' = [snapshots EXCEPT ![r] = SnapshotAfter(@, name, res.ret)]
    /\ firstReg' = IF res.outcome = "registered" /\ firstReg[r][k] = None
                   THEN [firstReg EXCEPT ![r][k] = cls]
                   ELSE firstReg
    /\ pureReg' = pureReg
    /\ lastReg' = [op |-> "register", reg |-> r, key |-> k, cls |-> cls,
                   bound |-> IF DictHas(registry[r], k)
                             THEN DictGet(registry[r], k) ELSE None,
                   outcome |-> res.outcome]
    /\ UNCHANGED <<facadeVars, toolVars>>

\* registry._registry.clear(), as the test suites do
DirectClear(r) ==
    /\ registry' = [registry EXCEPT ![r] = << >>]
    /\ pureReg' = [pureReg EXCEPT ![r] = FALSE]
    /\ lastReg' = [op |-> "clear", reg |-> r, key |-> None, cls |-> None,
                   bound |-> None, outcome |-> "done"]
    /\ UNCHANGED <<snapshots, firstReg>>
    /\ UNCHANGED <<facadeVars, toolVars>>

\* algorithm_registry.restore_from_snapshots() / policy_registry.restore_from_snapshots()
Restore(r) ==
    /\ registry' = [registry EXCEPT ![r] = RestoreFromSnapshots(snapshots[r])]
    /\ pureReg' = [pureReg EXCEPT ![r] = FALSE]
    /\ lastReg' = [op |-> "restore", reg |-> r, key |-> None, cls |-> None,
                   bound |-> None, outcome |-> "done"]
    /\ UNCHANGED <<snapshots, firstReg>>
    /\ UNCHANGED <<facadeVars, toolVars>>

-----------------------------------------------------------------------------
(* Configuration value parsing (utils/config_loader/converters.py)         *)

Digits == {"0", "1", "2", "3", "4", "5", "6", "7", "8", "9"}

DigitVal(c) ==
    CASE c = "0" -> 0 [] c = "1" -> 1 [] c = "2" -> 2 [] c = "3" -> 3
      [] c = "4" -> 4 [] c = "5" -> 5 [] c = "6" -> 6 [] c = "7" -> 7
      [] c = "8" -> 8 [] c = "9" -> 9

DigitChar(n) == <<"0", "1", "2", "3", "4", "5", "6", "7", "8", "9">>[n + 1]

\* str.isspace() on one character
IsSpace(c) == c \in {" ", "\t", "\n"}

RECURSIVE LStrip(_)
LStrip(s) == IF s # << >> /\ IsSpace(Head(s)) THEN LStrip(Tail(s)) ELSE s

RECURSIVE RStrip(_)
RStrip(s) ==
    IF s # << >> /\ IsSpace(s[Len(s)]) THEN RStrip(SubSeq(s, 1, Len(s) - 1)) ELSE s

\* str.strip()
Strip(s) == RStrip(LStrip(s))

\* the regular expression [0-9]+ as a full match
AllDigits(s) == s # << >> /\ \A i \in 1..Len(s) : s[i] \in Digits

RECURSIVE DigitsToInt(_)
\* int() of a digit string
DigitsToInt(s) ==
    IF s = << >> THEN 0
    ELSE DigitsToInt(SubSeq(s, 1, Len(s) - 1)) * 10 + DigitVal(s[Len(s)])

RECURSIVE NatToDigits(_)
NatToDigits(n) ==
    IF n < 10 THEN <<DigitChar(n)>>
    ELSE NatToDigits(n \div 10) \o <<DigitChar(n % 10)>>

\* str() of an int
IntToStr(n) == IF n < 0 THEN <<"-">> \o NatToDigits(0 - n) ELSE NatToDigits(n)

\* length of the longest prefix of digits
RECURSIVE DigitPrefixLen(_)
DigitPrefixLen(s) ==
    IF s # << >> /\ Head(s) \in Digits THEN 1 + DigitPrefixLen(Tail(s)) ELSE 0

\* typed values produced by the converters
VStr(s) == [t |-> "str", s |-> s]
VBool(b) == [t |-> "bool", b |-> b]
VInt(n) == [t |-> "int", n |-> n]
VFloat(neg, ip, frac) == [t |-> "float", neg |-> neg, ip |-> ip, frac |-> frac]
VList(items) == [t |-> "list", items |-> items]

_BOOL_TRUE == {<<"t", "r", "u", "e">>, <<"o", "n">>, <<"y", "e", "s">>}
_BOOL_FALSE == {<<"f", "a", "l", "s", "e">>, <<"o", "f", "f">>, <<"n", "o">>}

\* _SIZE_SUFFIXES: the factor of a (lowercased) suffix, 0 when it is no key
SizeFactor(sfx) ==
    CASE sfx \in {<<"k">>, <<"k", "b">>} -> 1024
      [] sfx \in {<<"m">>, <<"m", "b">>} -> 1024 * 1024
      [] sfx \in {<<"g">>, <<"g", "b">>} -> 1024 * 1024 * 1024
      [] OTHER -> 0

\* _try_size on the text between the \s* of the pattern: nd digits, then the
\* suffix group
SizeOf(core, nd) ==
    LET sfxRaw == SubSeq(core, nd + 1, Len(core))
        number == DigitsToInt(SubSeq(core, 1, nd))
        suffix == LowerStr(sfxRaw)
        matches == /\ nd >= 1
                   /\ Len(core) - nd <= 2
                   /\ \A i \in (nd + 1)..Len(core) :
                        core[i] \in {"k", "K", "m", "M", "g", "G", "b", "B"}
    IN  IF ~matches THEN [ok |-> FALSE, n |-> 0]
        ELSE IF SizeFactor(suffix) # 0
             THEN [ok |-> TRUE, n |-> number * SizeFactor(suffix)]
        ELSE IF suffix \in {<< >>, <<"b">>} THEN [ok |-> TRUE, n |-> number]
        ELSE [ok |-> FALSE, n |-> 0]

\* _try_size(value): [ok |-> TRUE, n |-> int], or ok |-> FALSE for None
_try_size(value) ==
    CHOOSE r \in {SizeOf(core, DigitPrefixLen(core)) : core \in {Strip(value)}} : TRUE

\* the regular expression -?[0-9]+ as a full match
IsIntLiteral(raw) ==
    IF raw # << >> /\ Head(raw) = "-" THEN AllDigits(Tail(raw)) ELSE AllDigits(raw)

\* int(raw) for a string matching -?[0-9]+
IntLiteral(raw) ==
    IF Head(raw) = "-" THEN 0 - DigitsToInt(Tail(raw)) ELSE DigitsToInt(raw)

\* position of the first "." (0 when there is none)
DotPos(s) == IF \E i \in 1..Len(s) : s[i] = "."
             THEN CHOOSE i \in 1..Len(s) : s[i] = "." /\ \A j \in 1..(i - 1) : s[j] # "."
             ELSE 0

\* the regular expression -?[0-9]+\.[0-9]+ as a full match
IsFloatLiteral(raw) ==
    LET body == IF raw # << >> /\ Head(raw) = "-" THEN Tail(raw) ELSE raw
        d == DotPos(body)
    IN  /\ d > 0
        /\ AllDigits(SubSeq(body, 1, d - 1))
        /\ AllDigits(SubSeq(body, d + 1, Len(body)))

RECURSIVE StripTrailingZeros(_)
StripTrailingZeros(s) ==
    IF s # << >> /\ s[Len(s)] = "0"
    THEN StripTrailingZeros(SubSeq(s, 1, Len(s) - 1)) ELSE s

\* float(raw) for a string matching -?[0-9]+\.[0-9]+ (short decimals)
FloatLiteral(raw) ==
    LET neg == Head(raw) = "-"
        body == IF neg THEN Tail(raw) ELSE raw
        d == DotPos(body)
    IN  VFloat(neg, DigitsToInt(SubSeq(body, 1, d - 1)),
               StripTrailingZeros(SubSeq(body, d + 1, Len(body))))

RECURSIVE SplitList(_, _)
\* re.split(r"[;,]", raw), keeping the stripped non-empty parts; cur is the
\* part being read
SplitList(s, cur) ==
    IF s = << >>
    THEN (IF Strip(cur) # << >> THEN <<Strip(cur)>> ELSE << >>)
    ELSE IF Head(s) \in {",", ";"}
         THEN (IF Strip(cur) # << >> THEN <<Strip(cur)>> ELSE << >>)
              \o SplitList(Tail(s), << >>)
         ELSE SplitList(Tail(s), Append(cur, Head(s)))

\* default_parse after raw = value.strip(), low = raw.lower() and
\* sized = _try_size(raw)
ParseStripped(value, raw, low, sized) ==
    IF low \in _BOOL_TRUE THEN VBool(TRUE)
    ELSE IF low \in _BOOL_FALSE THEN VBool(FALSE)
    ELSE IF sized.ok THEN VInt(sized.n)
    ELSE IF IsIntLiteral(raw) THEN VInt(IntLiteral(raw))
    ELSE IF IsFloatLiteral(raw) THEN FloatLiteral(raw)
    ELSE IF \E i \in 1..Len(raw) : raw[i] \in {",", ";"}
         THEN VList(SplitList(raw, << >>))
    ELSE VStr(value)

\* default_parse(value) for a string value
default_parse(value) ==
    CHOOSE v \in UNION {{ParseStripped(value, raw, low, sized) :
                            low \in {LowerStr(raw)}, sized \in {_try_size(raw)}} :
                        raw \in {Strip(value)}} : TRUE

\* ConverterRegistry.convert with the default chain [default_parse]
Convert(raw) == default_parse(raw)

\* bool(v) of a typed value
Truthy(v) ==
    CASE v.t = "str" -> v.s # << >>
      [] v.t = "bool" -> v.b
      [] v.t = "int" -> v.n # 0
      [] v.t = "float" -> v.ip # 0 \/ v.frac # << >>
      [] v.t = "list" -> v.items # << >>

RECURSIVE ListRepr(_)
\* the items of repr(list of str), without the brackets
ListRepr(items) ==
    IF items = << >> THEN << >>
    ELSE <<"'">> \o Head(items) \o <<"'">>
         \o (IF Tail(items) = << >> THEN << >> ELSE <<",", " ">> \o ListRepr(Tail(items)))

\* str(v) of a typed value, as an f-string formats it
PyStr(v) ==
    CASE v.t = "str" -> v.s
      [] v.t = "bool" -> IF v.b THEN <<"T", "r", "u", "e">>
                         ELSE <<"F", "a", "l", "s", "e">>
      [] v.t = "int" -> IntToStr(v.n)
      [] v.t = "float" -> (IF v.neg THEN <<"-">> ELSE << >>) \o NatToDigits(v.ip)
                          \o <<".">> \o (IF v.frac = << >> THEN <<"0">> ELSE v.frac)
      [] v.t = "list" -> <<"[">> \o ListRepr(v.items) \o <<"]">>

-----------------------------------------------------------------------------
(* Pepper configuration and strategies (transform/pepper)                  *)

\* the PEPPER_ keys in sorted() order of the key strings
PepperKeyOrder ==
    <<"PEPPER_ENABLED", "PEPPER_HMAC_ALGO", "PEPPER_HMAC_KEY",
      "PEPPER_INTERLEAVE_FREQ", "PEPPER_INTERLEAVE_TOKEN", "PEPPER_MODE",
      "PEPPER_PREFIX", "PEPPER_SECRET", "PEPPER_SUFFIX">>

RECURSIVE SnapshotFrom(_, _)
\* the (key, str(value)) pairs of the PEPPER_ keys, in sorted order, for the
\* keys PepperKeyOrder[i..]
SnapshotFrom(mapping, i) ==
    IF i > Len(PepperKeyOrder) THEN << >>
    ELSE (IF DictHas(mapping, PepperKeyOrder[i])
          THEN << <<PepperKeyOrder[i], DictGet(mapping, PepperKeyOrder[i])>> >>
          ELSE << >>)
         \o SnapshotFrom(mapping, i + 1)

\* _snapshot(mapping): tuple(sorted(items with a PEPPER_ key))
_snapshot(mapping) == SnapshotFrom(mapping, 1)

\* the constructor parameters of PepperConfig, their keys and defaults
PepperFields ==
    <<"enabled", "mode", "secret", "prefix", "suffix", "interleave_freq",
      "interleave_token", "hmac_key", "hmac_algo">>

\* prefix + pname.upper()
FieldKey(f) ==
    CASE f = "enabled" -> "PEPPER_ENABLED"
      [] f = "mode" -> "PEPPER_MODE"
      [] f = "secret" -> "PEPPER_SECRET"
      [] f = "prefix" -> "PEPPER_PREFIX"
      [] f = "suffix" -> "PEPPER_SUFFIX"
      [] f = "interleave_freq" -> "PEPPER_INTERLEAVE_FREQ"
      [] f = "interleave_token" -> "PEPPER_INTERLEAVE_TOKEN"
      [] f = "hmac_key" -> "PEPPER_HMAC_KEY"
      [] f = "hmac_algo" -> "PEPPER_HMAC_ALGO"

Sha256 == <<"s", "h", "a", "2", "5", "6">>
Sha512 == <<"s", "h", "a", "5", "1", "2">>
HashlibNew == <<"n", "e", "w">>

\* PepperConfig field defaults
FieldDefault(f) ==
    CASE f = "enabled" -> VBool(TRUE)
      [] f = "mode" -> VStr(<<"n", "o", "o", "p">>)
      [] f = "interleave_freq" -> VInt(0)
      [] f = "hmac_algo" -> VStr(Sha256)
      [] OTHER -> VStr(<< >>)

\* PolicyBuilder._collect, first loop: the converted value or the default
Resolved(mapping, f) ==
    IF DictHas(mapping, FieldKey(f)) THEN Convert(DictGet(mapping, FieldKey(f)))
    ELSE FieldDefault(f)

\* int(val) in the type enforcement: [ok, v]
CoerceInt(val) ==
    CASE val.t \in {"int", "bool"} -> [ok |-> TRUE, v |-> val]
      [] val.t = "float" -> [ok |-> TRUE, v |-> VInt(IF val.neg THEN 0 - val.ip ELSE val.ip)]
      [] val.t = "str" -> IF IsIntLiteral(Strip(val.s))
                          THEN [ok |-> TRUE, v |-> VInt(IntLiteral(Strip(val.s)))]
                          ELSE [ok |-> FALSE, v |-> val]
      [] val.t = "list" -> [ok |-> FALSE, v |-> val]

\* PolicyBuilder._collect, type enforcement of the resolved values, and
\* PepperConfig(**values)
EnforceTypes(r, freq) ==
    IF r["enabled"].t # "bool" \/ ~freq.ok
    THEN [ok |-> FALSE, exc |-> "ConfigValidationError", cfg |-> r]
    ELSE [ok |-> TRUE, exc |-> None, cfg |-> [r EXCEPT !["interleave_freq"] = freq.v]]

\* _build_config(mapping): ConfigLoader.build(PepperConfig, "PEPPER_")
_build_config(mapping) ==
    CHOOSE c \in {EnforceTypes(r, CoerceInt(r["interleave_freq"])) :
                    r \in {[f \in {PepperFields[i] : i \in 1..Len(PepperFields)} |->
                               Resolved(mapping, f)]}} : TRUE

\* the attributes of the hashlib module that construct a fixed-length digest,
\* and other attributes of the module
HashlibDigests == {Sha256, Sha512}
HashlibOtherAttrs == {HashlibNew}

\* x or y on typed values
PyOr(x, y) == IF Truthy(x) THEN x ELSE y

\* an int or bool as a number
IntOf(v) == IF v.t = "bool" THEN (IF v.b THEN 1 ELSE 0) ELSE v.n

NoOp == [name |-> "noop"]

Built(s) == [ok |-> TRUE, exc |-> None, strategy |-> s]
BuildFails(e) == [ok |-> FALSE, exc |-> e, strategy |-> NoOp]

\* the hmac branch of build_pepper_strategy
BuildHmac(cfg) ==
    LET key == cfg["hmac_key"]
        algo == PyOr(cfg["hmac_algo"], VStr(Sha256))
    IN  IF ~Truthy(key) THEN BuildFails("PepperConfigError")
        ELSE IF key.t \notin {"str", "list"} THEN BuildFails("TypeError")
        ELSE IF algo.t # "str" THEN BuildFails("TypeError")
        ELSE IF algo.s \notin HashlibDigests \cup HashlibOtherAttrs
             THEN BuildFails("PepperStrategyConstructionError")
        ELSE IF key.t # "str" THEN BuildFails("PepperStrategyConstructionError")
        ELSE Built([name |-> "hmac", key |-> key.s, algo |-> algo.s])

\* build_pepper_strategy(cfg)
build_pepper_strategy(cfg) ==
    LET m == PyOr(cfg["mode"], VStr(<<"n", "o", "o", "p">>))
        mode == LowerStr(m.s)
        secret == PyOr(cfg["secret"], VStr(<< >>))
    IN  IF m.t # "str" THEN BuildFails("AttributeError")
        ELSE IF ~cfg["enabled"].b \/ mode = <<"n", "o", "o", "p">> THEN Built(NoOp)
        ELSE IF mode = <<"p", "r", "e", "f", "i", "x">>
             THEN Built([name |-> "prefix", prefix |-> PyOr(cfg["prefix"], secret)])
        ELSE IF mode = <<"s", "u", "f", "f", "i", "x">>
             THEN Built([name |-> "suffix", suffix |-> PyOr(cfg["suffix"], secret)])
        ELSE IF mode = <<"p", "r", "e", "f", "i", "x", "_", "s", "u", "f", "f", "i", "x">>
             THEN Built([name |-> "prefix_suffix",
                         prefix |-> PyOr(cfg["prefix"], secret),
                         suffix |-> PyOr(cfg["suffix"], secret)])
        ELSE IF mode = <<"i", "n", "t", "e", "r", "l", "e", "a", "v", "e">>
             THEN (IF IntOf(cfg["interleave_freq"]) <= 0 THEN Built(NoOp)
                   ELSE Built([name |-> "interleave",
                               token |-> PyOr(cfg["interleave_token"], secret),
                               frequency |-> IntOf(cfg["interleave_freq"])]))
        ELSE IF mode = <<"h", "m", "a", "c">> THEN BuildHmac(cfg)
        ELSE BuildFails("UnknownPepperStrategyError")

\* the body of _cached_strategy(snapshot): every failure falls back to noop
StrategyFor(snapshot) ==
    CHOOSE s \in {IF ~c.ok THEN NoOp ELSE build_pepper_strategy(c.cfg).strategy :
                    c \in {_build_config(snapshot)}} : TRUE

Returns(s) == [ok |-> TRUE, exc |-> None, out |-> s]
Raises(e) == [ok |-> FALSE, exc |-> e, out |-> << >>]

RECURSIVE InterleaveFrom(_, _, _, _)
\* InterleaveStrategy.apply, the loop from (1-based) position i on; items are
\* the strings that token[j] yields
InterleaveFrom(password, items, frequency, i) ==
    IF i > Len(password) THEN << >>
    ELSE <<password[i]>>
         \o (IF i % frequency = 0
             THEN items[(((i \div frequency) - 1) % Len(items)) + 1]
             ELSE << >>)
         \o InterleaveFrom(password, items, frequency, i + 1)

\* InterleaveStrategy.apply
InterleaveApply(token, frequency, password) ==
    IF ~Truthy(token) \/ frequency <= 0 THEN Returns(password)
    ELSE IF token.t = "str"
         THEN Returns(InterleaveFrom(password,
                     [j \in 1..Len(token.s) |-> <<token.s[j]>>], frequency, 1))
    ELSE IF token.t = "list"
         THEN Returns(InterleaveFrom(password, token.items, frequency, 1))
    ELSE IF frequency <= Len(password) THEN Raises("TypeError")
    ELSE Returns(password)

\* hmac.new(key, password, func).hexdigest(): an injective term in the digest
\* algorithm, the key and the message
HmacHex(algo, key, password) ==
    <<"#hmac">> \o algo \o <<"#key">> \o key \o <<"#msg">> \o password

\* HmacStrategy.apply
HmacApply(key, algo, password) ==
    IF algo \notin HashlibDigests \cup HashlibOtherAttrs
    THEN Raises("PepperStrategyConstructionError")
    ELSE IF algo \notin HashlibDigests THEN Raises("PepperStrategyConstructionError")
    ELSE Returns(HmacHex(algo, key, password))

\* strategy.apply(password)
StrategyApply(strategy, password) ==
    CASE strategy.name = "noop" -> Returns(password)
      [] strategy.name = "prefix" -> Returns(PyStr(strategy.prefix) \o password)
      [] strategy.name = "suffix" -> Returns(password \o PyStr(strategy.suffix))
      [] strategy.name = "prefix_suffix" ->
            Returns(PyStr(strategy.prefix) \o password \o PyStr(strategy.suffix))
      [] strategy.name = "interleave" ->
            InterleaveApply(strategy.token, strategy.frequency, password)
      [] strategy.name = "hmac" -> HmacApply(strategy.key, strategy.algo, password)

\* the lru_cache before the first call
EmptyCache == [valid |-> FALSE, snapshot |-> << >>, strategy |-> NoOp]

\* a cache that is not keyed by the snapshot: it keeps serving its entry
CachedStrategyStale(c, snapshot) ==
    IF c.valid THEN [strategy |-> c.strategy, cache |-> c]
    ELSE CHOOSE e \in {[strategy |-> s,
                        cache |-> [valid |-> TRUE, snapshot |-> snapshot, strategy |-> s]] :
                       s \in {StrategyFor(snapshot)}} : TRUE

\* _cached_strategy under lru_cache(maxsize=1): the strategy and the cache after
CachedStrategy(c, snapshot) ==
    IF c.valid /\ c.snapshot = snapshot
    THEN [strategy |-> c.strategy, cache |-> c]
    ELSE CHOOSE e \in {[strategy |-> s,
                        cache |-> [valid |-> TRUE, snapshot |-> snapshot, strategy |-> s]] :
                       s \in {StrategyFor(snapshot)}} : TRUE

\* apply_pepper(password, config): the outcome and the cache after
apply_pepper(c, password, config) ==
    IF password = << >> THEN [res |-> Returns(password), cache |-> c]
    ELSE CHOOSE r \in {[res |-> StrategyApply(cs.strategy, password), cache |-> cs.cache] :
                        cs \in {CachedStrategy(c, snap) : snap \in {_snapshot(config)}}} : TRUE

-----------------------------------------------------------------------------
(* Hashing implementations and the Algorithm facade                        *)

ARGON2_RECOMMENDED_TIME_COST == 2
ARGON2_MIN_TIME_COST == 1
BCRYPT_RECOMMENDED_ROUNDS == 12
BCRYPT_MIN_ROUNDS == 4

DummyKey == <<"d", "u", "m", "m", "y">>
NoRehashKey == <<"n", "o", "r", "e", "h", "a", "s", "h">>

\* the algorithm registry after discovery, with the test doubles registered
DiscoveredAlgorithms ==
    << <<Argon2Key, "Argon2">>, <<BcryptKey, "Bcrypt">>,
       <<DummyKey, "DummyImpl">>, <<NoRehashKey, "NoRehash">> >>

\* Argon2Policy / BcryptPolicy instances (the cost parameter that the hash
\* string carries)
Policy(type, cost) == [type |-> type, cost |-> cost]
NoPolicy == Policy("none", 0)

\* Argon2.__init__ / Bcrypt.__init__ / the test doubles: the policy the
\* implementation keeps, or the exception of the constructor
ImplInit(cls, policy) ==
    CASE cls = "Argon2" ->
            IF policy = NoPolicy
            THEN [ok |-> TRUE, policy |-> Policy("Argon2Policy", ARGON2_RECOMMENDED_TIME_COST)]
            ELSE IF policy.type # "Argon2Policy" THEN [ok |-> FALSE, policy |-> policy]
            ELSE [ok |-> TRUE, policy |-> policy]
      [] cls = "Bcrypt" ->
            IF policy = NoPolicy
            THEN [ok |-> TRUE, policy |-> Policy("BcryptPolicy", BCRYPT_RECOMMENDED_ROUNDS)]
            ELSE IF policy.type # "BcryptPolicy" THEN [ok |-> FALSE, policy |-> policy]
            ELSE [ok |-> TRUE, policy |-> policy]
      [] OTHER -> [ok |-> TRUE, policy |-> policy]

\* hasattr(impl, "needs_rehash")
HasNeedsRehash(cls) == cls # "NoRehash"

NoFacade == [built |-> FALSE, cls |-> None, variant |-> << >>, policy |-> NoPolicy,
             config |-> << >>, usesEnviron |-> FALSE]

\* Algorithm.__init__(variant, policy, config=config)
AlgorithmInit(reg, variant, policy, config) ==
    IF ~DictHas(reg, LowerStr(variant)) THEN NoFacade
    ELSE LET cls == DictGet(reg, LowerStr(variant))
             impl == ImplInit(cls, policy)
         IN  IF ~impl.ok THEN NoFacade
             ELSE [built |-> TRUE, cls |-> cls, variant |-> LowerStr(variant),
                   policy |-> impl.policy, config |-> config,
                   usesEnviron |-> (config = << >>)]

\* self._config: the mapping given, or os.environ when it is missing or empty
EffectiveConfig(f, env) == IF f.usesEnviron THEN env ELSE f.config

\* hash strings: the implementation, the cost parameter and the salt it
\* encodes, and the (peppered) password it was derived from
HashOf(alg, cost, salt, pw) ==
    [kind |-> "hash", alg |-> alg, cost |-> cost, salt |-> salt, pw |-> pw]
EmptyHash == [kind |-> "empty", alg |-> None, cost |-> 0, salt |-> None, pw |-> << >>]
CorruptHash == [kind |-> "corrupt", alg |-> None, cost |-> 0, salt |-> None, pw |-> << >>]
OldHash == [kind |-> "old", alg |-> None, cost |-> 0, salt |-> None, pw |-> << >>]

Salts == {"s1", "s2"}

HashReturns(h) == [ok |-> TRUE, exc |-> None, cause |-> None, value |-> h]
HashRaises(e, cause) == [ok |-> FALSE, exc |-> e, cause |-> cause, value |-> EmptyHash]

\* impl.hash_raw(peppered) / impl.hash(peppered); fault: the library call (or
\* the patched entry point) raises RuntimeError
ImplHash(cls, policy, peppered, salt, fault) ==
    CASE cls = "Argon2" ->
            IF peppered = << >> THEN HashRaises("HashingError", None)
            ELSE IF fault THEN HashRaises("RuntimeError", None)
            ELSE HashReturns(HashOf("argon2", policy.cost, salt, peppered))
      [] cls = "Bcrypt" ->
            IF peppered = << >> THEN HashRaises("HashingError", None)
            ELSE IF fault THEN HashRaises("RuntimeError", None)
            ELSE HashReturns(HashOf("bcrypt", policy.cost, salt, peppered))
      [] cls = "DummyImpl" ->
            IF fault THEN HashRaises("RuntimeError", None)
            ELSE HashReturns(HashOf("dummy", 0, None, peppered))
      [] cls = "NoRehash" -> HashReturns(HashOf("x", 0, None, << >>))

BoolReturns(b) == [ok |-> TRUE, exc |-> None, cause |-> None, value |-> b]
BoolRaises(e, cause) == [ok |-> FALSE, exc |-> e, cause |-> cause, value |-> FALSE]

\* impl.verify_raw(stored_hash, peppered) / impl.verify(stored_hash, peppered)
ImplVerify(cls, h, peppered, fault) ==
    CASE cls = "Argon2" ->
            IF h.kind = "empty" \/ peppered = << >> THEN BoolReturns(FALSE)
            ELSE IF fault THEN BoolRaises("VerificationError", "RuntimeError")
            ELSE IF h.kind # "hash" \/ h.alg # "argon2"
                 THEN BoolRaises("VerificationError", "InvalidHashError")
            ELSE BoolReturns(h.pw = peppered)
      [] cls = "Bcrypt" ->
            IF h.kind = "empty" \/ peppered = << >> THEN BoolReturns(FALSE)
            ELSE IF fault THEN BoolRaises("VerificationError", "RuntimeError")
            ELSE IF h.kind # "hash" \/ h.alg # "bcrypt"
                 THEN BoolRaises("VerificationError", "ValueError")
            ELSE BoolReturns(h.pw = peppered)
      [] cls = "DummyImpl" ->
            IF fault THEN BoolRaises("RuntimeError", None)
            ELSE BoolReturns(h.kind = "hash" /\ h.alg = "dummy" /\ h.pw = peppered)
      [] cls = "NoRehash" -> BoolReturns(TRUE)

\* impl.needs_rehash(stored_hash), for implementations that have it
ImplNeedsRehash(cls, policy, h, fault) ==
    CASE cls = "Argon2" ->
            IF h.kind = "empty" THEN BoolReturns(FALSE)
            ELSE IF fault \/ h.kind # "hash" \/ h.alg # "argon2" THEN BoolReturns(FALSE)
            ELSE BoolReturns(h.cost # policy.cost)
      [] cls = "Bcrypt" ->
            IF fault \/ h.kind # "hash" \/ h.alg # "bcrypt" THEN BoolReturns(FALSE)
            ELSE BoolReturns(h.cost < policy.cost)
      [] cls = "DummyImpl" ->
            IF fault THEN BoolRaises("RuntimeError", None)
            ELSE BoolReturns(h.kind = "old")
      [] OTHER -> BoolRaises("AttributeError", None)

\* what a facade call reports: the outcome, whether the implementation was
\* called and what it did, and the pepper cache after the call
Call(res, called, impl, c) == [res |-> res, called |-> called, impl |-> impl, cache |-> c]

\* Algorithm.hash that lets the exceptions of the implementation through
AlgorithmHashUnwrapped(f, env, c, password, salt, fault) ==
    IF password = << >>
    THEN Call(HashRaises("HashingError", None), FALSE, HashRaises(None, None), c)
    ELSE CHOOSE out \in
            {LET impl == ImplHash(f.cls, f.policy, pep.res.out, salt, fault)
             IN  IF ~pep.res.ok
                 THEN Call(HashRaises("HashingError", pep.res.exc), FALSE,
                           HashRaises(None, None), pep.cache)
                 ELSE Call(impl, TRUE, impl, pep.cache) :
             pep \in {apply_pepper(c, password, EffectiveConfig(f, env))}} : TRUE

\* Algorithm.hash(password)
AlgorithmHash(f, env, c, password, salt, fault) ==
    IF password = << >>
    THEN Call(HashRaises("HashingError", None), FALSE, HashRaises(None, None), c)
    ELSE CHOOSE out \in
            {LET impl == ImplHash(f.cls, f.policy, pep.res.out, salt, fault)
             IN  IF ~pep.res.ok
                 THEN Call(HashRaises("HashingError", pep.res.exc), FALSE,
                           HashRaises(None, None), pep.cache)
                 ELSE IF impl.ok THEN Call(impl, TRUE, impl, pep.cache)
                 ELSE IF impl.exc = "HashingError" THEN Call(impl, TRUE, impl, pep.cache)
                 ELSE Call(HashRaises("HashingError", impl.exc), TRUE, impl, pep.cache) :
             pep \in {apply_pepper(c, password, EffectiveConfig(f, env))}} : TRUE

\* Algorithm.verify that answers False for every failure
AlgorithmVerifySwallowing(f, env, c, h, password, fault) ==
    IF h.kind = "empty" \/ password = << >>
    THEN Call(BoolReturns(FALSE), FALSE, BoolRaises(None, None), c)
    ELSE CHOOSE out \in
            {LET impl == ImplVerify(f.cls, h, pep.res.out, fault)
             IN  IF ~pep.res.ok
                 THEN Call(BoolReturns(FALSE), FALSE, BoolRaises(None, None), pep.cache)
                 ELSE IF impl.ok THEN Call(impl, TRUE, impl, pep.cache)
                 ELSE Call(BoolReturns(FALSE), TRUE, impl, pep.cache) :
             pep \in {apply_pepper(c, password, EffectiveConfig(f, env))}} : TRUE

\* Algorithm.verify(stored_hash, password)
AlgorithmVerify(f, env, c, h, password, fault) ==
    IF h.kind = "empty" \/ password = << >>
    THEN Call(BoolReturns(FALSE), FALSE, BoolRaises(None, None), c)
    ELSE CHOOSE out \in
            {LET impl == ImplVerify(f.cls, h, pep.res.out, fault)
             IN  IF ~pep.res.ok
                 THEN Call(BoolRaises("VerificationError", pep.res.exc), FALSE,
                           BoolRaises(None, None), pep.cache)
                 ELSE IF impl.ok THEN Call(impl, TRUE, impl, pep.cache)
                 ELSE IF impl.exc = "VerificationError"
                      THEN Call(impl, TRUE, impl, pep.cache)
                 ELSE Call(BoolRaises("VerificationError", impl.exc), TRUE, impl,
                           pep.cache) :
             pep \in {apply_pepper(c, password, EffectiveConfig(f, env))}} : TRUE

\* Algorithm.needs_rehash that lets the exceptions of the implementation through
AlgorithmNeedsRehashUnguarded(f, c, h, fault) ==
    LET impl == ImplNeedsRehash(f.cls, f.policy, h, fault)
    IN  Call(impl, TRUE, impl, c)

\* Algorithm.needs_rehash(stored_hash)
AlgorithmNeedsRehash(f, c, h, fault) ==
    IF ~HasNeedsRehash(f.cls)
    THEN Call(BoolReturns(FALSE), FALSE, BoolRaises(None, None), c)
    ELSE LET impl == ImplNeedsRehash(f.cls, f.policy, h, fault)
         IN  IF impl.ok THEN Call(impl, TRUE, impl, c)
             ELSE Call(BoolReturns(FALSE), TRUE, impl, c)

-----------------------------------------------------------------------------
(* Inputs                                                                  *)

\* the longest password hashed or verified
MaxPasswordLen == 2

\* the non-empty passwords: "a", "ax", "axx", ... up to MaxPasswordLen
Passwords == {[i \in 1..n |-> IF i = 1 THEN "a" ELSE "x"] : n \in 1..MaxPasswordLen}

S_hmac == <<"h", "m", "a", "c">>
S_suffix == <<"s", "u", "f", "f", "i", "x">>
S_prefix == <<"p", "r", "e", "f", "i", "x">>
S_interleave == <<"i", "n", "t", "e", "r", "l", "e", "a", "v", "e">>
S_true == <<"t", "r", "u", "e">>
S_false == <<"f", "a", "l", "s", "e">>

\* zero or one entry for a key
Opt(key, values) == {<< >>} \cup {<< <<key, v>> >> : v \in values}

\* hmac configurations: mode, key, digest algorithm, enabled flag
HmacModes == {S_hmac, <<"H", "M", "A", "C">>}
HmacKeys == {<<"k", "3", "y">>, <<" ", "k", " ">>, <<"4", "2">>, <<"8", "k">>,
             <<"y", "e", "s">>, <<"a", ",", "b">>, <<"1", ".", "5">>, <<"0">>, << >>}
HmacAlgos == {Sha256, Sha512, <<"S", "H", "A", "2", "5", "6">>, HashlibNew,
              <<"n", "o", "p", "e">>, <<"5">>, << >>}
EnabledValues == {S_true, <<"O", "n">>, <<"1">>, S_false}

HmacConfigs ==
    {<< <<"PEPPER_MODE", m>> >> \o k \o a \o e :
        m \in HmacModes, k \in Opt("PEPPER_HMAC_KEY", HmacKeys),
        a \in Opt("PEPPER_HMAC_ALGO", HmacAlgos),
        e \in Opt("PEPPER_ENABLED", EnabledValues)}

\* prefix / suffix / prefix_suffix configurations
AffixConfigs ==
    {<< <<"PEPPER_MODE", m>> >> \o p \o s \o x :
        m \in {S_prefix, S_suffix, S_prefix \o <<"_">> \o S_suffix},
        p \in Opt("PEPPER_PREFIX", {<<"p">>, <<"6", "4", "k">>, <<"n", "o">>}),
        s \in Opt("PEPPER_SUFFIX", {<<"_", "s">>}),
        x \in Opt("PEPPER_SECRET", {<<"x">>, <<"a", ";">>})}

\* interleave configurations
InterleaveConfigs ==
    {<< <<"PEPPER_MODE", S_interleave>> >> \o q \o t \o x :
        q \in Opt("PEPPER_INTERLEAVE_FREQ",
                  {<<"1">>, <<"2">>, <<"3">>, <<"0">>, <<"-", "1">>, <<"1", ".", "5">>,
                   <<"y", "e", "s">>, <<"x">>, <<"a", ",">>}),
        t \in Opt("PEPPER_INTERLEAVE_TOKEN", {<<"z">>, <<"1", "2">>, <<"u", ",", "v", "w">>}),
        x \in Opt("PEPPER_SECRET", {<<"x">>})}

\* configurations without a usable mode
OtherConfigs ==
    {<< >>,
     << <<"HASH_VARIANT", Argon2Key>> >>,
     << <<"PEPPER_MODE", <<"n", "o", "o", "p">>>>, <<"PEPPER_SECRET", <<"x">>>> >>,
     << <<"PEPPER_MODE", <<"r", "o", "t">>>> >>,
     << <<"PEPPER_MODE", <<"7">>>> >>,
     << <<"PEPPER_MODE", << >>>> >>,
     << <<"PEPPER_SECRET", <<"x">>>> >>}

PepperConfigs == HmacConfigs \cup AffixConfigs \cup InterleaveConfigs \cup OtherConfigs

\* the configurations given to facades
C_variantOnly == << <<"HASH_VARIANT", Argon2Key>> >>
C_suffix == << <<"PEPPER_MODE", S_suffix>>, <<"PEPPER_SUFFIX", <<"_", "s">>>> >>
C_hmac == << <<"PEPPER_MODE", S_hmac>>, <<"PEPPER_HMAC_KEY", <<"k", "3", "y">>>> >>
C_hmacNumeric == << <<"PEPPER_MODE", S_hmac>>, <<"PEPPER_HMAC_KEY", <<"4", "2">>>> >>
C_hmacNew == << <<"PEPPER_MODE", S_hmac>>, <<"PEPPER_HMAC_KEY", <<"k", "3", "y">>>>,
                <<"PEPPER_HMAC_ALGO", HashlibNew>> >>
C_disabled == << <<"PEPPER_ENABLED", S_false>>, <<"PEPPER_MODE", S_suffix>>,
                 <<"PEPPER_SUFFIX", <<"_", "s">>>> >>

FacadeConfigs == {<< >>, C_variantOnly, C_suffix, C_hmac, C_hmacNumeric, C_hmacNew,
                  C_disabled}

\* the values os.environ takes
EnvironValues == {<< >>, C_hmac}

FacadeIds == {1, 2}

-----------------------------------------------------------------------------
(* Facade and pepper calls                                                 *)

NoStored == [valid |-> FALSE, hash |-> EmptyHash, by |-> 0, password |-> << >>,
             config |-> << >>]

NoCall == [op |-> "none", f |-> 0, password |-> << >>, hsel |-> None, fault |-> FALSE,
           config |-> << >>, res |-> BoolReturns(FALSE), called |-> FALSE,
           impl |-> BoolRaises(None, None)]

\* the stored_hash argument of a call
HashArg(hsel) ==
    CASE hsel = "stored" -> stored.hash
      [] hsel = "empty" -> EmptyHash
      [] hsel = "corrupt" -> CorruptHash
      [] hsel = "old" -> OldHash

\* apply_pepper(password, config) called directly
ApplyPepper(config, password) ==
    \E r \in {apply_pepper(cache, password, config)} :
    /\ cache' = r.cache
    /\ last' = [NoCall EXCEPT !.op = "apply_pepper", !.password = password,
                              !.config = config, !.res = r.res]
    /\ UNCHANGED <<environ, facades, stored>>
    /\ UNCHANGED <<regVars, toolVars>>

\* facade.hash(password)
Hash(i, password, salt, fault) ==
    /\ facades[i].built
    /\ \E r \in {AlgorithmHash(facades[i], environ, cache, password, salt, fault)} :
        LET f == facades[i] IN
        /\ cache' = r.cache
        /\ stored' = IF r.res.ok
                     THEN [valid |-> TRUE, hash |-> r.res.value, by |-> i,
                           password |-> password, config |-> EffectiveConfig(f, environ)]
                     ELSE stored
        /\ last' = [NoCall EXCEPT !.op = "hash", !.f = i, !.password = password,
                                  !.fault = fault, !.config = EffectiveConfig(f, environ),
                                  !.res = r.res, !.called = r.called, !.impl = r.impl]
        /\ UNCHANGED <<environ, facades>>
        /\ UNCHANGED <<regVars, toolVars>>

\* facade.verify(stored_hash, password)
Verify(i, hsel, password, fault) ==
    /\ facades[i].built
    /\ hsel = "stored" => stored.valid
    /\ \E r \in {AlgorithmVerify(facades[i], environ, cache, HashArg(hsel), password,
                                 fault)} :
        LET f == facades[i] IN
        /\ cache' = r.cache
        /\ last' = [NoCall EXCEPT !.op = "verify", !.f = i, !.password = password,
                                  !.hsel = hsel, !.fault = fault,
                                  !.config = EffectiveConfig(f, environ),
                                  !.res = r.res, !.called = r.called, !.impl = r.impl]
        /\ UNCHANGED <<environ, facades, stored>>
        /\ UNCHANGED <<regVars, toolVars>>

\* facade.needs_rehash(stored_hash)
NeedsRehash(i, hsel, fault) ==
    /\ facades[i].built
    /\ hsel = "stored" => stored.valid
    /\ \E r \in {AlgorithmNeedsRehash(facades[i], cache, HashArg(hsel), fault)} :
        /\ cache' = r.cache
        /\ last' = [NoCall EXCEPT !.op = "needs_rehash", !.f = i, !.hsel = hsel,
                                  !.fault = fault, !.res = r.res, !.called = r.called,
                                  !.impl = r.impl]
        /\ UNCHANGED <<environ, facades, stored>>
        /\ UNCHANGED <<regVars, toolVars>>

\* os.environ changes (PEPPER_ variables set or removed)
SetEnviron(e) ==
    /\ e # environ
    /\ environ' = e
    /\ last' = [NoCall EXCEPT !.op = "setenv"]
    /\ UNCHANGED <<facades, cache, stored>>
    /\ UNCHANGED <<regVars, toolVars>>

-----------------------------------------------------------------------------
(* Configuration-driven object builder (utils/config_loader/builder.py)    *)

\* a constructor parameter: its name, its key (prefix + NAME), and its default
Param(name, key, required, default) ==
    [name |-> name, key |-> key, required |-> required, default |-> default]

\* the dataclasses built in the tests: Multi(a: int, b: int, c: int = 5) and
\* Strict(x: int) whose __post_init__ rejects x < 0
TargetParams(target) ==
    CASE target = "Multi" ->
            <<Param("a", "MULTI_A", TRUE, VInt(0)), Param("b", "MULTI_B", TRUE, VInt(0)),
              Param("c", "MULTI_C", FALSE, VInt(5))>>
      [] target = "Strict" -> <<Param("x", "STRICT_X", TRUE, VInt(0))>>

\* __post_init__ of the target: the exception it raises, or None
PostInit(target, values) ==
    IF target = "Strict" /\ IntOf(values[1]) < 0 THEN "ValueError" ELSE None

\* _collect, first loop, for one parameter; failing is the set of keys whose
\* value a registered converter rejects
ResolveParam(mapping, p, failing) ==
    IF DictHas(mapping, p.key)
    THEN (IF p.key \in failing
          THEN [ok |-> FALSE, err |-> <<"Invalid value", p.key>>, v |-> p.default]
          ELSE [ok |-> TRUE, err |-> << >>, v |-> Convert(DictGet(mapping, p.key))])
    ELSE IF p.required
         THEN [ok |-> FALSE, err |-> <<"Missing required", p.key>>, v |-> p.default]
    ELSE [ok |-> TRUE, err |-> << >>, v |-> p.default]

\* _collect, second loop, for one resolved int parameter
EnforceInt(p, r) ==
    CHOOSE e \in {[ok |-> c.ok, err |-> IF c.ok THEN << >> ELSE <<"Type mismatch", p.key>>,
                   v |-> c.v] : c \in {CoerceInt(r.v)}} : TRUE

\* the errors of a sequence of per-parameter outcomes, in parameter order
ErrorsOf(rs) ==
    LET Failed(r) == ~r.ok
    IN  [i \in 1..Len(SelectSeq(rs, Failed)) |-> SelectSeq(rs, Failed)[i].err]

\* the outcome of the loops of _collect over already resolved parameters
CollectResolved(params, rs) ==
    IF ErrorsOf(rs) # << >>
    THEN [ok |-> FALSE, errors |-> ErrorsOf(rs), values |-> << >>]
    ELSE CHOOSE out \in
            {[ok |-> ErrorsOf(es) = << >>, errors |-> ErrorsOf(es),
              values |-> IF ErrorsOf(es) = << >> THEN [i \in 1..Len(es) |-> es[i].v]
                         ELSE << >>] :
             es \in {[i \in 1..Len(params) |-> EnforceInt(params[i], rs[i])]}} : TRUE

\* PolicyBuilder._collect(policy_cls, prefix, label)
_collect(target, mapping, failing) ==
    CHOOSE out \in
        {CollectResolved(TargetParams(target), rs) :
         rs \in {[i \in 1..Len(TargetParams(target)) |->
                     ResolveParam(mapping, TargetParams(target)[i], failing)]}} : TRUE

BuildReturns(values) ==
    [ok |-> TRUE, exc |-> None, errors |-> << >>, cause |-> None, values |-> values,
     constructed |-> TRUE]
BuildRaises(e, errors, cause, constructed) ==
    [ok |-> FALSE, exc |-> e, errors |-> errors, cause |-> cause, values |-> << >>,
     constructed |-> constructed]

\* the construction of the target from collected values, without the wrapping
\* of constructor errors
BuildCollectedUnwrapped(target, c) ==
    IF ~c.ok THEN BuildRaises("ConfigValidationError", c.errors, None, FALSE)
    ELSE IF PostInit(target, c.values) # None
         THEN BuildRaises(PostInit(target, c.values), << >>, None, TRUE)
    ELSE BuildReturns(c.values)

\* PolicyBuilder.build after values = self._collect(...)
BuildCollected(target, c) ==
    IF ~c.ok THEN BuildRaises("ConfigValidationError", c.errors, None, FALSE)
    ELSE IF PostInit(target, c.values) # None
         THEN BuildRaises("ConfigValidationError", << >>, PostInit(target, c.values), TRUE)
    ELSE BuildReturns(c.values)

\* build without the wrapping of constructor errors
buildUnwrapped(target, mapping, failing) ==
    CHOOSE out \in {BuildCollectedUnwrapped(target, c) :
                    c \in {_collect(target, mapping, failing)}} : TRUE

\* PolicyBuilder.build(policy_cls, prefix, label)
build(target, mapping, failing) ==
    CHOOSE out \in {BuildCollected(target, c) : c \in {_collect(target, mapping, failing)}} :
        TRUE

Targets == {"Multi", "Strict"}

\* the mappings given to ConfigLoader
LoaderConfigs ==
    {a \o b \o c \o x :
        a \in Opt("MULTI_A", {<<"1">>, <<"a", "b", "c">>}),
        b \in Opt("MULTI_B", {<<"2">>, <<"x", ",", "y">>, <<"2", ".", "7">>}),
        c \in Opt("MULTI_C", {<<"y", "e", "s">>, <<"n", "o", "p", "e">>}),
        x \in Opt("STRICT_X", {<<"-", "5">>, <<"3">>, <<" ", "8", "k">>})}

\* the keys whose values a registered converter may reject
FailingKeySets == {{}, {"MULTI_A"}, {"STRICT_X"}}

NoBuild == [op |-> "none", target |-> None, failing |-> {}, res |-> BuildReturns(<< >>)]

\* ConfigLoader(loaderConfig).build(target, prefix, name)
Build(target, failing) ==
    /\ lastBuild' = [op |-> "build", target |-> target, failing |-> failing,
                     res |-> build(target, loaderConfig, failing)]
    /\ UNCHANGED <<loaderConfig, notLoader>>

InitLoaderIdle ==
    /\ loaderConfig = << >>
    /\ lastBuild = NoBuild

-----------------------------------------------------------------------------
(* Bootstrap of the hashing parameters (bootstrap.py)                       *)
(* A str is a sequence of tokens: a key name is one token, and whitespace,  *)
(* "=", "#" and the characters of a value are tokens of their own.          *)

NumProcs == 2
BootProcs == 1..NumProcs

K_VARIANT == <<"HASH_VARIANT">>
K_AUTO == <<"AUTO_BENCHMARK">>
K_TIME == <<"ARGON2_TIME_COST">>
K_BY == <<"GENERATED_BY">>
K_SHA == <<"GENERATED_SHA256">>

\* the keys of the model in the order of sorted()
KeyOrder ==
    <<<<"ARGON2_HASH_LENGTH">>, <<"ARGON2_MEMORY_COST">>, <<"ARGON2_PARALLELISM">>,
      <<"ARGON2_SALT_LENGTH">>, K_TIME, K_AUTO, K_BY, K_SHA, K_VARIANT>>

\* required_keys of ensure_env_config for argon2 (BENCH_SCHEMA of Argon2Policy)
RequiredKeys == {K_TIME, <<"ARGON2_MEMORY_COST">>, <<"ARGON2_PARALLELISM">>}

\* f"{k}={v}"
FormatLine(kv) == kv[1] \o <<"=">> \o kv[2]

\* sorted(config.items())
SortedItems(config) ==
    LET Present(k) == DictHas(config, k)
    IN  CHOOSE out \in {[i \in 1..Len(keys) |-> <<keys[i], DictGet(config, keys[i])>>] :
                        keys \in {SelectSeq(KeyOrder, Present)}} : TRUE

RECURSIVE JoinLines(_)
\* "\n".join(f"{k}={v}" for k, v in items)
JoinLines(items) ==
    IF items = << >> THEN << >>
    ELSE IF Len(items) = 1 THEN FormatLine(items[1])
    ELSE FormatLine(items[1]) \o <<"\n">> \o JoinLines(Tail(items))

\* a digest over the keys only
Sha256OfKeys(config) == <<"sha256(">> \o JoinLines([i \in 1..Len(config) |-> <<config[i][1], << >> >>]) \o <<")">>

\* _sha256_of(config): the hex digest, written as its preimage (SHA-256 is
\* taken to be free of collisions)
_sha256_of(config) == <<"sha256(">> \o JoinLines(SortedItems(config)) \o <<")">>

\* export_env(config, filepath)
export_env(config) ==
    [exists |-> TRUE, lines |-> [i \in 1..Len(config) |-> FormatLine(config[i])]]

NoFile == [exists |-> FALSE, lines |-> << >>]

\* the position of the first "=" of a line, 0 if there is none
EqAt(line) ==
    IF \E i \in 1..Len(line) : line[i] = "="
    THEN CHOOSE i \in 1..Len(line) : line[i] = "=" /\ \A j \in 1..(i - 1) : line[j] # "="
    ELSE 0

RECURSIVE ParseEnvLines(_, _)
\* the key/value loop of _validate_generated_block over the lines of a file
ParseEnvLines(lines, kv) ==
    IF lines = << >> THEN kv
    ELSE IF Head(lines) = << >> \/ Head(lines)[1] = "#" \/ EqAt(Head(lines)) = 0
         THEN ParseEnvLines(Tail(lines), kv)
    ELSE CHOOSE out \in
            {ParseEnvLines(Tail(lines),
                           DictSet(kv, Strip(SubSeq(line, 1, eq - 1)),
                                   Strip(SubSeq(line, eq + 1, Len(line))))) :
             line \in {Head(lines)}, eq \in {EqAt(Head(lines))}} : TRUE

\* dict(kv) without the key k
DictPop(d, k) ==
    LET Other(e) == e[1] # k
    IN  SelectSeq(d, Other)

\* _validate_generated_block(path): TRUE iff the integrity warning is logged
_validate_generated_block(file) ==
    IF ~file.exists THEN FALSE
    ELSE CHOOSE warned \in
            {IF ~DictHas(kv, K_SHA) THEN FALSE
             ELSE IF DictGet(kv, K_SHA) = << >> THEN FALSE
             ELSE DictGet(kv, K_SHA) # _sha256_of(DictPop(kv, K_SHA)) :
             kv \in {ParseEnvLines(file.lines, << >>)}} : TRUE

RECURSIVE UpdateEnviron(_, _, _)
\* the entries of kv put into env, over existing values only if override
UpdateEnviron(env, kv, override) ==
    IF kv = << >> THEN env
    ELSE UpdateEnviron(IF override \/ ~DictHas(env, kv[1][1])
                       THEN DictSet(env, kv[1][1], kv[1][2]) ELSE env,
                       Tail(kv), override)

\* load_dotenv(path, override=...) on the files the bootstrap writes
load_dotenv(file, env, override) ==
    IF ~file.exists THEN env
    ELSE CHOOSE out \in {UpdateEnviron(env, kv, override) :
                         kv \in {ParseEnvLines(file.lines, << >>)}} : TRUE

\* _bool_flag("AUTO_BENCHMARK") with DEFAULTS["AUTO_BENCHMARK"] = "0"
_bool_flag(env, name) ==
    LowerStr(IF DictHas(env, name) THEN DictGet(env, name) ELSE <<"0">>)
        \in {<<"1">>, S_true, <<"y", "e", "s">>, <<"o", "n">>}

\* all(k in os.environ for k in required_keys)
AllRequired(env) == \A k \in RequiredKeys : DictHas(env, k)

\* BenchmarkRunner._build_env_config for a best policy with the given time cost
BenchBest(timeCost) ==
    <<<<K_VARIANT, <<"argon2">> >>, <<K_TIME, timeCost>>,
      <<<<"ARGON2_MEMORY_COST">>, <<"6", "5", "5", "3", "6">> >>,
      <<<<"ARGON2_PARALLELISM">>, <<"2">> >> >>

\* the time costs a benchmark may choose
BenchTimeCosts == {<<"2">>, <<"3">>}

\* Argon2Policy().to_dict() as environment entries
PolicyDefaults ==
    <<<<K_TIME, <<"2">> >>, <<<<"ARGON2_MEMORY_COST">>, <<"6", "5", "5", "3", "6">> >>,
      <<<<"ARGON2_PARALLELISM">>, <<"1">> >>, <<<<"ARGON2_HASH_LENGTH">>, <<"3", "2">> >>,
      <<<<"ARGON2_SALT_LENGTH">>, <<"1", "6">> >> >>

\* env_config of ensure_env_config from result["best"]
GeneratedConfig(best) ==
    CHOOSE out \in
        {DictSet(withBy, K_SHA, _sha256_of(withBy)) :
         withBy \in {DictSet(UpdateEnviron(best, PolicyDefaults, FALSE), K_BY,
                             <<"securitykit-bench", " ", "v0.2.0">>)}} : TRUE

\* _file_lock that never locks
NeverLocks(have, holders) == TRUE

\* _file_lock(path): a process may enter the body
_file_lock(have, holders) == have => holders = {}

NoTamper == [key |-> << >>, old |-> << >>, new |-> << >>]
Unwritten == [by |-> 0, tamper |-> NoTamper]

BootIdle ==
    [pc |-> "done", environ |-> << >>, env_config |-> << >>, warned |-> FALSE,
     saw |-> Unwritten, benchmarked |-> FALSE, wrote |-> FALSE, late |-> FALSE,
     skipped |-> FALSE, runs |-> 0]

\* a process about to call ensure_env_config
BootStart(env) == [BootIdle EXCEPT !.pc = "start", !.environ = env, !.runs = 1]

\* ensure_env_config: load_dotenv(".env.local", override=True)
LoadEnv(p) ==
    /\ boot[p].pc = "start"
    /\ boot' = [boot EXCEPT ![p].pc = "check",
                            ![p].environ = load_dotenv(envLocal, boot[p].environ, TRUE)]
    /\ UNCHANGED <<havePortalocker, envLocal, lockHolders, fileOrigin, notBoot>>

\* ensure_env_config: integrity validation, required keys, AUTO_BENCHMARK gate
CheckEnv(p) ==
    /\ boot[p].pc = "check"
    /\ boot' = [boot EXCEPT ![p].warned = _validate_generated_block(envLocal),
                            ![p].saw = fileOrigin,
                            ![p].pc = IF AllRequired(boot[p].environ) THEN "done"
                                      ELSE IF ~_bool_flag(boot[p].environ, K_AUTO) THEN "done"
                                      ELSE "lock"]
    /\ UNCHANGED <<havePortalocker, envLocal, lockHolders, fileOrigin, notBoot>>

\* with _file_lock(export_path): entering the body
Acquire(p) ==
    /\ boot[p].pc = "lock"
    /\ _file_lock(havePortalocker, lockHolders)
    /\ lockHolders' = lockHolders \cup {p}
    /\ boot' = [boot EXCEPT ![p].pc = "recheck", ![p].late = (fileOrigin.by # 0)]
    /\ UNCHANGED <<havePortalocker, envLocal, fileOrigin, notBoot>>

\* the re-check after acquiring the lock
Recheck(p) ==
    /\ boot[p].pc = "recheck"
    /\ \E env \in {load_dotenv(envLocal, boot[p].environ, TRUE)} :
        boot' = [boot EXCEPT ![p].environ = env,
                             ![p].skipped = envLocal.exists /\ AllRequired(env),
                             ![p].pc = IF envLocal.exists /\ AllRequired(env)
                                       THEN "unlock" ELSE "bench"]
    /\ UNCHANGED <<havePortalocker, envLocal, lockHolders, fileOrigin, notBoot>>

\* BenchmarkRunner(config).run() and the assembly of env_config
Benchmark(p) ==
    /\ boot[p].pc = "bench"
    /\ \/ boot' = [boot EXCEPT ![p].pc = "unlock"]
       \/ \E t \in BenchTimeCosts :
            boot' = [boot EXCEPT ![p].pc = "export", ![p].benchmarked = TRUE,
                                 ![p].env_config = GeneratedConfig(BenchBest(t))]
    /\ UNCHANGED <<havePortalocker, envLocal, lockHolders, fileOrigin, notBoot>>

\* export_env: Path.write_text opens and truncates the file
Truncate(p) ==
    /\ boot[p].pc = "export"
    /\ envLocal' = [exists |-> TRUE, lines |-> << >>]
    /\ boot' = [boot EXCEPT ![p].pc = "write"]
    /\ UNCHANGED <<havePortalocker, lockHolders, fileOrigin, notBoot>>

\* export_env: the lines are written; os.environ.update(env_config)
Export(p) ==
    /\ boot[p].pc = "write"
    /\ envLocal' = export_env(boot[p].env_config)
    /\ fileOrigin' = [by |-> p, tamper |-> NoTamper]
    /\ boot' = [boot EXCEPT ![p].pc = "unlock", ![p].wrote = TRUE,
                            ![p].environ = UpdateEnviron(boot[p].environ,
                                                         boot[p].env_config, TRUE)]
    /\ UNCHANGED <<havePortalocker, lockHolders, notBoot>>

\* leaving the body of _file_lock
Unlock(p) ==
    /\ boot[p].pc = "unlock"
    /\ lockHolders' = lockHolders \ {p}
    /\ boot' = [boot EXCEPT ![p].pc = "done"]
    /\ UNCHANGED <<havePortalocker, envLocal, fileOrigin, notBoot>>

\* the values an editor puts in place of a generated value
TamperValues == {<<"9", "9", "9">>, <<"3">>, <<"3", " ">>, <<" ", "2">>}
TamperKeys == {K_TIME, K_BY}

\* the lines of a file with the value of one key replaced
WithValue(lines, key, value) ==
    [i \in 1..Len(lines) |->
        IF EqAt(lines[i]) > 0 /\ SubSeq(lines[i], 1, EqAt(lines[i]) - 1) = key
        THEN FormatLine(<<key, value>>) ELSE lines[i]]

\* an editor changes the value of one key of the generated file
Tamper(key, value) ==
    /\ \A p \in BootProcs : boot[p].pc = "done"
    /\ fileOrigin.by # 0
    /\ fileOrigin.tamper = NoTamper
    /\ \E old \in {SubSeq(envLocal.lines[i], Len(key) + 2, Len(envLocal.lines[i])) :
                   i \in {j \in 1..Len(envLocal.lines) :
                            SubSeq(envLocal.lines[j], 1, Len(key) + 1) = key \o <<"=">>}} :
        /\ old # value
        /\ fileOrigin' = [fileOrigin EXCEPT !.tamper = [key |-> key, old |-> old, new |-> value]]
    /\ envLocal' = [envLocal EXCEPT !.lines = WithValue(envLocal.lines, key, value)]
    /\ UNCHANGED <<havePortalocker, lockHolders, boot, notBoot>>

MaxRuns == 3

\* a process that has bootstrapped calls ensure_env_config again
Rerun(p) ==
    /\ boot[p].pc = "done"
    /\ boot[p].runs \in 1..(MaxRuns - 1)
    /\ boot' = [boot EXCEPT ![p].pc = "start", ![p].runs = @ + 1, ![p].warned = FALSE,
                            ![p].saw = Unwritten]
    /\ UNCHANGED <<havePortalocker, envLocal, lockHolders, fileOrigin, notBoot>>

\* the os.environ of a process before the bootstrap
StartEnviron(auto) == <<<<K_VARIANT, <<"argon2">> >>, <<K_AUTO, auto>> >>

\* a file left behind without the required keys
PartialFile == export_env(<<<<K_VARIANT, <<"argon2">> >> >>)

InitBootIdle ==
    /\ havePortalocker = TRUE
    /\ envLocal = NoFile
    /\ lockHolders = {}
    /\ boot = [p \in BootProcs |-> BootIdle]
    /\ fileOrigin = Unwritten

-----------------------------------------------------------------------------
(* Adaptive calibration (bench/argon2_calibrate.py, bench/cache.py)         *)

START_TIME_COST == 2
START_MEMORY_COST == 65536
START_PARALLELISM == 2
MAX_PARALLELISM == 4
TARGET_LOWER_MS == 180
TARGET_UPPER_MS == 320

Min(a, b) == IF a <= b THEN a ELSE b
Max(a, b) == IF a >= b THEN a ELSE b

\* an entry of the cache file; cpu_count -1 stands for an entry without one
CacheEntry(cpu, hasParams, tc, mc, par, ms) ==
    [present |-> TRUE, cpu_count |-> cpu, hasParams |-> hasParams,
     time_cost |-> tc, memory_cost |-> mc, parallelism |-> par, measured_ms |-> ms]
NoEntry ==
    [present |-> FALSE, cpu_count |-> 0, hasParams |-> FALSE,
     time_cost |-> 0, memory_cost |-> 0, parallelism |-> 0, measured_ms |-> 0]

\* the cache file: missing, unreadable, not JSON, a JSON list, or a JSON
\* object with or without an argon2 entry; writable tells whether the file
\* and its directory can be written
CacheFile(kind, entry, writable) == [kind |-> kind, entry |-> entry, writable |-> writable]

\* load_cache(path): the parsed JSON, or None
load_cache(file) ==
    IF file.kind \in {"list", "object"}
    THEN [shape |-> file.kind, entry |-> file.entry]
    ELSE [shape |-> "none", entry |-> NoEntry]

\* get_entry("argon2", path)
get_entry(file) ==
    CHOOSE out \in
        {IF data.shape = "none" THEN [exc |-> None, entry |-> NoEntry]
         ELSE IF data.shape = "list" THEN [exc |-> "AttributeError", entry |-> NoEntry]
         ELSE [exc |-> None, entry |-> data.entry] :
         data \in {load_cache(file)}} : TRUE

\* save_entry(entry, path)
save_entry(entry, file) ==
    IF ~file.writable THEN [exc |-> "OSError", file |-> file]
    ELSE IF load_cache(file).shape = "list" THEN [exc |-> "TypeError", file |-> file]
    ELSE [exc |-> None, file |-> CacheFile("object", entry, TRUE)]

\* the reuse test of calibrate_argon2: abs(c_cpu - cpu_count) / c_cpu <= 0.5
CpuMatches(c_cpu, cpu_count) ==
    /\ c_cpu > 0
    /\ 2 * (IF c_cpu >= cpu_count THEN c_cpu - cpu_count ELSE cpu_count - c_cpu) <= c_cpu

NoResult ==
    [ok |-> TRUE, exc |-> None, from_cache |-> FALSE, time_cost |-> 0, memory_cost |-> 0,
     parallelism |-> 0, measured_ms |-> 0, iterations |-> 0, limited |-> FALSE]
CalRaises(e) == [NoResult EXCEPT !.ok = FALSE, !.exc = e]

NoBest == [set |-> FALSE, time_cost |-> 0, memory_cost |-> 0, parallelism |-> 0,
           measured_ms |-> 0, iterations |-> 0, limited |-> FALSE]

\* the keyword arguments of calibrate_argon2 and os.cpu_count()
CalArgs(maxIters, maxMemory, maxTime, allowCache, force, enablePar, cpu) ==
    [max_iters |-> maxIters, max_memory_kib |-> maxMemory, max_time_cost |-> maxTime,
     allow_cache |-> allowCache, force |-> force, enable_parallelism |-> enablePar,
     cpu_count |-> cpu]

\* no parameters measured yet
NoParams == [time_cost |-> 0, memory_cost |-> 0, parallelism |-> 0]

\* the locals of a call; late tells whether perf_counter() - start_wall has
\* passed fast_fail_seconds, exit how the loop was left, at the parameters
\* of the last measurement
CalIdle(args) ==
    [pc |-> "idle", args |-> args, time_cost |-> 0, memory_cost |-> 0, parallelism |-> 0,
     elapsed |-> 0, iteration |-> 0, limited |-> FALSE, best |-> NoBest, res |-> NoResult,
     measured |-> FALSE, calls |-> 0, seen |-> CacheFile("missing", NoEntry, TRUE),
     late |-> FALSE, exit |-> None, at |-> NoParams]

\* calibrate_argon2 up to the loop: the cache lookup and the start values
CalEnter(c, file) ==
    LET a == c.args
        search == [c EXCEPT !.pc = "loop", !.time_cost = START_TIME_COST,
                            !.memory_cost = START_MEMORY_COST,
                            !.parallelism = IF a.enable_parallelism
                                            THEN Min(START_PARALLELISM, a.cpu_count) ELSE 1,
                            !.elapsed = 0, !.iteration = 0, !.limited = FALSE,
                            !.best = NoBest, !.res = NoResult, !.measured = FALSE,
                            !.late = FALSE, !.exit = None, !.at = NoParams]
        failed(e) == [c EXCEPT !.pc = "done", !.res = CalRaises(e), !.measured = FALSE,
                               !.late = FALSE, !.exit = None, !.at = NoParams]
    IN  IF ~(a.allow_cache /\ ~a.force) THEN search
        ELSE CHOOSE out \in
            {IF g.exc # None THEN failed(g.exc)
             ELSE IF ~g.entry.present THEN search
             ELSE IF ~CpuMatches(g.entry.cpu_count, a.cpu_count) THEN search
             ELSE IF ~g.entry.hasParams THEN failed("KeyError")
             ELSE [c EXCEPT !.pc = "done", !.measured = FALSE,
                            !.late = FALSE, !.exit = None, !.at = NoParams,
                            !.res = [ok |-> TRUE, exc |-> None, from_cache |-> TRUE,
                                     time_cost |-> g.entry.time_cost,
                                     memory_cost |-> g.entry.memory_cost,
                                     parallelism |-> g.entry.parallelism,
                                     measured_ms |-> g.entry.measured_ms,
                                     iterations |-> 0, limited |-> FALSE]] :
             g \in {get_entry(file)}} : TRUE

\* best = (time_cost, memory_cost, parallelism, elapsed, iteration, limited)
BestOf(c, limited) ==
    [set |-> TRUE, time_cost |-> c.time_cost, memory_cost |-> c.memory_cost,
     parallelism |-> c.parallelism, measured_ms |-> c.elapsed, iterations |-> c.iteration,
     limited |-> limited]

\* the lowering branch that marks the search limited but does not leave the loop
DeescalateSilent(c) ==
    IF c.memory_cost > START_MEMORY_COST * 2
    THEN [c EXCEPT !.memory_cost = Max(START_MEMORY_COST, c.memory_cost \div 2)]
    ELSE IF c.time_cost > START_TIME_COST
         THEN [c EXCEPT !.time_cost = Max(START_TIME_COST, c.time_cost - 1)]
    ELSE IF c.args.enable_parallelism /\ c.parallelism > 1
         THEN [c EXCEPT !.parallelism = @ - 1]
    ELSE [c EXCEPT !.limited = TRUE]

\* the escalation branch with memory_cost not capped at max_memory_kib
EscalateUncapped(c) ==
    LET a == c.args
    IN  IF c.time_cost < a.max_time_cost THEN [c EXCEPT !.time_cost = @ + 1]
        ELSE IF c.memory_cost < a.max_memory_kib
             THEN [c EXCEPT !.memory_cost = (c.memory_cost * 3) \div 2]
        ELSE IF a.enable_parallelism /\ c.parallelism < a.cpu_count
                /\ c.parallelism < MAX_PARALLELISM
             THEN [c EXCEPT !.parallelism = @ + 1]
        ELSE [c EXCEPT !.limited = TRUE, !.best = BestOf(c, TRUE), !.pc = "finish"]

\* the escalation branch with memory_cost raised before time_cost
EscalateMemoryFirst(c) ==
    LET a == c.args
    IN  IF c.memory_cost < a.max_memory_kib
        THEN [c EXCEPT !.memory_cost = Min((c.memory_cost * 3) \div 2, a.max_memory_kib)]
        ELSE IF c.time_cost < a.max_time_cost THEN [c EXCEPT !.time_cost = @ + 1]
        ELSE IF a.enable_parallelism /\ c.parallelism < a.cpu_count
                /\ c.parallelism < MAX_PARALLELISM
             THEN [c EXCEPT !.parallelism = @ + 1]
        ELSE [c EXCEPT !.limited = TRUE, !.best = BestOf(c, TRUE), !.pc = "finish"]

\* the branch of the loop for a measurement below target_lower_ms
Escalate(c) ==
    LET a == c.args
    IN  IF c.time_cost < a.max_time_cost THEN [c EXCEPT !.time_cost = @ + 1]
        ELSE IF c.memory_cost < a.max_memory_kib
             THEN [c EXCEPT !.memory_cost = Min((c.memory_cost * 3) \div 2, a.max_memory_kib)]
        ELSE IF a.enable_parallelism /\ c.parallelism < a.cpu_count
                /\ c.parallelism < MAX_PARALLELISM
             THEN [c EXCEPT !.parallelism = @ + 1]
        ELSE [c EXCEPT !.limited = TRUE, !.best = BestOf(c, TRUE), !.pc = "finish"]

\* the branch of the loop for a measurement above target_upper_ms
Deescalate(c) ==
    IF c.memory_cost > START_MEMORY_COST * 2
    THEN [c EXCEPT !.memory_cost = Max(START_MEMORY_COST, c.memory_cost \div 2)]
    ELSE IF c.time_cost > START_TIME_COST
         THEN [c EXCEPT !.time_cost = Max(START_TIME_COST, c.time_cost - 1)]
    ELSE IF c.args.enable_parallelism /\ c.parallelism > 1
         THEN [c EXCEPT !.parallelism = @ - 1]
    ELSE [c EXCEPT !.limited = TRUE, !.best = BestOf(c, TRUE), !.pc = "finish"]

\* the while loop never checking iteration < max_iters
IterateUnbounded(c, elapsed, late) ==
    CHOOSE out \in
        {IF m.pc = "loop" /\ late /\ m.best.set
         THEN [m EXCEPT !.pc = "finish", !.exit = "fast-fail"]
         ELSE m :
         m \in {IF TARGET_LOWER_MS <= elapsed /\ elapsed <= TARGET_UPPER_MS
                THEN [cur EXCEPT !.best = BestOf(cur, cur.limited), !.pc = "finish",
                                 !.exit = "window"]
                ELSE CHOOSE adj \in
                        {IF a.pc = "finish" THEN [a EXCEPT !.exit = "limited"] ELSE a :
                         a \in {IF elapsed < TARGET_LOWER_MS THEN Escalate(cur)
                                ELSE Deescalate(cur)}} : TRUE :
                cur \in {[c EXCEPT !.iteration = @ + 1, !.elapsed = elapsed,
                                   !.measured = TRUE, !.late = late,
                                   !.at = [time_cost |-> c.time_cost,
                                           memory_cost |-> c.memory_cost,
                                           parallelism |-> c.parallelism]]}}} : TRUE

\* one pass of the while loop: the measurement, the window test, the
\* adjustment of a lever or the break as limited, the fast-fail test
\* (perf_counter() - start_wall) > fast_fail_seconds and best, and the
\* loop condition iteration < max_iters
CalIterate(c, elapsed, late) ==
    CHOOSE out \in
        {IF m.pc = "loop" /\ late /\ m.best.set
         THEN [m EXCEPT !.pc = "finish", !.exit = "fast-fail"]
         ELSE IF m.pc = "loop" /\ ~(m.iteration < m.args.max_iters)
         THEN [m EXCEPT !.pc = "finish", !.exit = "max_iters"]
         ELSE m :
         m \in {IF TARGET_LOWER_MS <= elapsed /\ elapsed <= TARGET_UPPER_MS
                THEN [cur EXCEPT !.best = BestOf(cur, cur.limited), !.pc = "finish",
                                 !.exit = "window"]
                ELSE CHOOSE adj \in
                        {IF a.pc = "finish" THEN [a EXCEPT !.exit = "limited"] ELSE a :
                         a \in {IF elapsed < TARGET_LOWER_MS THEN Escalate(cur)
                                ELSE Deescalate(cur)}} : TRUE :
                cur \in {[c EXCEPT !.iteration = @ + 1, !.elapsed = elapsed,
                                   !.measured = TRUE, !.late = late,
                                   !.at = [time_cost |-> c.time_cost,
                                           memory_cost |-> c.memory_cost,
                                           parallelism |-> c.parallelism]]}}} : TRUE

\* calibrate_argon2 after the loop: the result and the cache entry
CalLeave(c, file) ==
    LET b == IF c.best.set THEN c.best ELSE BestOf(c, c.limited)
        result == [ok |-> TRUE, exc |-> None, from_cache |-> FALSE,
                   time_cost |-> b.time_cost, memory_cost |-> b.memory_cost,
                   parallelism |-> b.parallelism, measured_ms |-> b.measured_ms,
                   iterations |-> b.iterations, limited |-> b.limited]
    IN  IF ~c.args.allow_cache
        THEN [cal |-> [c EXCEPT !.pc = "done", !.res = result], file |-> file]
        ELSE CHOOSE out \in
            {[cal |-> [c EXCEPT !.pc = "done",
                                !.res = IF s.exc = None THEN result ELSE CalRaises(s.exc)],
              file |-> s.file] :
             s \in {save_entry(CacheEntry(c.args.cpu_count, TRUE, b.time_cost, b.memory_cost,
                                          b.parallelism, b.measured_ms), file)}} : TRUE

\* the measurements a hash may take, in ms
Measurements == {100, 180, 320, 400}
CpuCounts == {1, 2, 4, 8}
MaxIters == 9
MaxCalls == 2

\* calibrate_argon2(...) is called
CalStart ==
    /\ cal.pc = "idle"
    /\ cal' = [CalEnter(cal, calFile) EXCEPT !.calls = cal.calls + 1, !.seen = calFile]
    /\ UNCHANGED <<calFile, notCal>>

\* elapsed = measure_current() and the adjustment that follows; late tells
\* whether the wall clock has passed fast_fail_seconds by the end of the pass
CalMeasure(elapsed, late) ==
    /\ cal.pc = "loop"
    /\ cal.late => late
    /\ cal' = CalIterate(cal, elapsed, late)
    /\ UNCHANGED <<calFile, notCal>>

\* the result is built, the entry saved, the call returns
CalFinish ==
    /\ cal.pc = "finish"
    /\ \E out \in {CalLeave(cal, calFile)} :
        /\ cal' = out.cal
        /\ calFile' = out.file
    /\ UNCHANGED notCal

\* the caller is ready for another call, possibly on a host with another cpu count
CalAgain(cpu) ==
    /\ cal.pc = "done"
    /\ cal.calls < MaxCalls
    /\ cal' = [cal EXCEPT !.pc = "idle", !.args.cpu_count = cpu]
    /\ UNCHANGED <<calFile, notCal>>

\* the cache files a call may find
CacheFiles ==
    {CacheFile(kind, NoEntry, w) :
        kind \in {"missing", "unreadable", "invalid", "list", "object"}, w \in BOOLEAN}
    \cup {CacheFile("object", CacheEntry(cpu, hp, 3, 98304, 2, 250), w) :
            cpu \in {-1, 0, 2, 4}, hp \in BOOLEAN, w \in BOOLEAN}

\* calls that exercise the cache, and calls that exercise the search
CacheCalls ==
    {CalArgs(1, 524288, 12, allow, force, TRUE, cpu) :
        allow \in BOOLEAN, force \in BOOLEAN, cpu \in CpuCounts}
SearchCalls ==
    {CalArgs(maxIters, maxMemory, maxTime, FALSE, FALSE, enablePar, cpu) :
        maxIters \in {1, MaxIters}, maxMemory \in {65536, 150000}, maxTime \in {2, 3}, enablePar \in BOOLEAN,
        cpu \in {1, 2, 8}}

InitCalIdle ==
    /\ cal = CalIdle(CalArgs(1, 524288, 12, FALSE, FALSE, TRUE, 1))
    /\ calFile = CacheFile("missing", NoEntry, TRUE)

-----------------------------------------------------------------------------
(* Concurrent calibration (bench/argon2_calibrate.py, bench/cache.py)      *)

\* the arguments of the concurrent calls: the defaults but for max_iters
RaceArgs == CalArgs(1, 524288, 12, TRUE, FALSE, TRUE, 2)

\* the cache files the concurrent calls may find
RaceFiles ==
    {CacheFile("missing", NoEntry, TRUE),
     CacheFile("object", NoEntry, TRUE),
     CacheFile("object", CacheEntry(2, TRUE, 3, 98304, 2, 250), TRUE)}

\* process p calls calibrate_argon2: the cache lookup, which takes no lock
RaceStart(p) ==
    /\ race[p].pc = "idle"
    /\ race' = [race EXCEPT ![p] = [CalEnter(race[p], calFile) EXCEPT !.calls = 1,
                                                                      !.seen = calFile]]
    /\ UNCHANGED <<cal, calFile, notRace>>

\* process p measures and adjusts
RaceMeasure(p, elapsed) ==
    /\ race[p].pc = "loop"
    /\ race' = [race EXCEPT ![p] = CalIterate(race[p], elapsed, FALSE)]
    /\ UNCHANGED <<cal, calFile, notRace>>

\* process p builds its result and save_entry rewrites the file, without a lock
RaceFinish(p) ==
    /\ race[p].pc = "finish"
    /\ \E out \in {CalLeave(race[p], calFile)} :
        /\ race' = [race EXCEPT ![p] = out.cal]
        /\ calFile' = out.file
    /\ UNCHANGED <<cal, notRace>>

InitRaceIdle == race = [p \in BootProcs |-> CalIdle(RaceArgs)]

-----------------------------------------------------------------------------
(* Grid benchmark (bench/runner.py, bench/analyzer.py)                      *)

\* a BENCH_SCHEMA: dimensions in order, each with its values
BenchSchema == <<<<"time_cost", <<1, 2, 3>> >>, <<"parallelism", <<1, 2>> >> >>

RECURSIVE Cartesian(_)
\* BenchmarkRunner._cartesian: the combinations, first dimension outermost
Cartesian(schema) ==
    IF schema = << >> THEN << << >> >>
    ELSE CHOOSE out \in
            {[i \in 1..(Len(Head(schema)[2]) * Len(rest)) |->
                 <<Head(schema)[2][((i - 1) \div Len(rest)) + 1]>>
                     \o rest[((i - 1) % Len(rest)) + 1]] :
             rest \in {Cartesian(Tail(schema))}} : TRUE

\* BenchmarkResult of the i-th combination; id is the identity of the object
BenchmarkResult(i, policy, median) == [id |-> i, policy |-> policy, median |-> median]

\* lower <= r.median <= upper for target_ms * (1 -+ tolerance), tolerance in percent
InWindow(r, target_ms, tolerance) ==
    /\ target_ms * (100 - tolerance) <= r.median * 100
    /\ r.median * 100 <= target_ms * (100 + tolerance)

\* ResultAnalyzer.filter_near
filter_near(results, target_ms, tolerance) ==
    LET Near(r) == InWindow(r, target_ms, tolerance)
    IN  SelectSeq(results, Near)

Abs(n) == IF n < 0 THEN -n ELSE n

\* min(results, key=...): the first result with the least key, the keys
\* of the results given in the order of the results
FirstLeast(results, keys) ==
    results[CHOOSE i \in 1..Len(results) :
                /\ \A j \in 1..Len(results) : keys[i] <= keys[j]
                /\ \A j \in 1..(i - 1) : keys[j] > keys[i]]

\* ResultAnalyzer.closest
closest(results, target_ms) ==
    FirstLeast(results, [i \in 1..Len(results) |-> Abs(results[i].median - target_ms)])

SeqMin(s) == CHOOSE v \in {s[i] : i \in 1..Len(s)} : \A i \in 1..Len(s) : v <= s[i]
SeqMax(s) == CHOOSE v \in {s[i] : i \in 1..Len(s)} : \A i \in 1..Len(s) : v >= s[i]

RECURSIVE Product(_)
Product(s) == IF s = << >> THEN 1 ELSE Head(s) * Product(Tail(s))

RECURSIVE Sum(_)
Sum(s) == IF s = << >> THEN 0 ELSE Head(s) + Sum(Tail(s))

\* the common denominator of the normalized positions of a schema
PositionScale(schema) ==
    2 * Product([d \in 1..Len(schema) |->
                    Max(1, SeqMax(schema[d][2]) - SeqMin(schema[d][2]))])

\* _compute_dimension_position, times PositionScale
DimensionPosition(schema, d, val) ==
    LET lo == SeqMin(schema[d][2])
        hi == SeqMax(schema[d][2])
    IN  IF hi = lo THEN PositionScale(schema) \div 2
        ELSE IF val < lo THEN 0
        ELSE IF val > hi THEN PositionScale(schema)
        ELSE ((val - lo) * PositionScale(schema)) \div (hi - lo)

\* _default_balance_score: sum((v - mean)^2), times Len(schema) * PositionScale^2
BalanceScore(schema, r) ==
    CHOOSE s \in
        {Len(pos) * Sum([d \in 1..Len(pos) |-> pos[d] * pos[d]]) - Sum(pos) * Sum(pos) :
         pos \in {[d \in 1..Len(schema) |-> DimensionPosition(schema, d, r.policy[d])]}} : TRUE

\* ResultAnalyzer.balanced
balanced(schema, results) ==
    IF schema = << >> THEN results[1]
    ELSE FirstLeast(results, [i \in 1..Len(results) |-> BalanceScore(schema, results[i])])

\* _analyze_results that always takes the closest result
AnalyzeClosest(schema, results, target_ms, tolerance) ==
    CHOOSE out \in
        {[best |-> best, near |-> LET Other(r) == r.id # best.id IN SelectSeq(near_all, Other)] :
         near_all \in {filter_near(results, target_ms, tolerance)},
         best \in {closest(results, target_ms)}} : TRUE

\* BenchmarkRunner._analyze_results
_analyze_results(schema, results, target_ms, tolerance) ==
    CHOOSE out \in
        UNION {{[best |-> best,
                 near |-> LET Other(r) == r.id # best.id IN SelectSeq(near_all, Other)] :
                best \in {IF near_all # << >> THEN balanced(schema, near_all)
                          ELSE closest(results, target_ms)}} :
               near_all \in {filter_near(results, target_ms, tolerance)}} : TRUE

\* the medians the engine may measure, the target and the tolerances in percent
Medians == {100, 140, 160}
BENCH_TARGET_MS == 120
Tolerances == {5, 20, 40}

NoAnalysis == [best |-> BenchmarkResult(0, << >>, 0), near |-> << >>]

\* the result sets of a grid: one result per combination
ResultSets ==
    {[i \in 1..Len(Cartesian(BenchSchema)) |->
         BenchmarkResult(i, Cartesian(BenchSchema)[i], ms[i])] :
     ms \in [1..Len(Cartesian(BenchSchema)) -> Medians]}

BenchIdle == [results |-> << >>, tolerance |-> 0, done |-> FALSE, out |-> NoAnalysis]

\* BenchmarkRunner.run after the results were collected
Run ==
    /\ ~bench.done
    /\ bench.results # << >>
    /\ bench' = [bench EXCEPT !.done = TRUE,
                              !.out = _analyze_results(BenchSchema, bench.results,
                                                       BENCH_TARGET_MS, bench.tolerance)]
    /\ UNCHANGED notBench

InitBenchIdle == bench = BenchIdle

\* nothing built, calibrated or validated yet
-----------------------------------------------------------------------------
(* Password validator                                                      *)

\* PasswordPolicy.PASSWORD_MAX_LENGTH, and the value a test patches it to
PASSWORD_MAX_LENGTH == 4096
PatchedMaxLength == 2

MaxPasswordChars == 3

\* the characters of a password: an ASCII upper-case letter, lower-case
\* letter, digit and punctuation mark, and the Arabic-Indic digit three
ArabicThree == "U+0663"
PasswordChars == {"A", "a", "1", "!", ArabicThree}

\* the characters of the alphabet the patterns of validate match
\* [A-Z], [a-z], \d (every Unicode decimal digit) and [^A-Za-z0-9]
UpperPattern == {"A"}
LowerPattern == {"a"}
DigitPattern == {"1", ArabicThree}
SpecialPattern == PasswordChars \ {"A", "a", "1"}

\* re.search: scan the password from the left for a matching character
RECURSIVE re_search(_, _)
re_search(pattern, password) ==
    IF password = <<>> THEN FALSE
    ELSE IF Head(password) \in pattern THEN TRUE
    ELSE re_search(pattern, Tail(password))

PasswordPolicy(min_length, max_length, upper, lower, digit, special) ==
    [min_length |-> min_length, PASSWORD_MAX_LENGTH |-> max_length,
     require_upper |-> upper, require_lower |-> lower,
     require_digit |-> digit, require_special |-> special]

\* the messages of the InvalidPolicyConfig that validate raises
MsgTooShort == "Password must be at least min_length characters long."
MsgTooLong == "Password too long (max PASSWORD_MAX_LENGTH characters)."
MsgUpper == "Password must contain at least one uppercase letter."
MsgLower == "Password must contain at least one lowercase letter."
MsgDigit == "Password must contain at least one digit."
MsgSpecial == "Password must contain at least one special character."

Returned == "returned"
Pending == "pending"

\* validate with the digit check moved before the lower-case check
ValidateDigitFirst(policy, password) ==
    IF Len(password) < policy.min_length THEN MsgTooShort
    ELSE IF Len(password) > policy.PASSWORD_MAX_LENGTH THEN MsgTooLong
    ELSE IF policy.require_upper /\ ~re_search(UpperPattern, password) THEN MsgUpper
    ELSE IF policy.require_digit /\ ~re_search(DigitPattern, password) THEN MsgDigit
    ELSE IF policy.require_lower /\ ~re_search(LowerPattern, password) THEN MsgLower
    ELSE IF policy.require_special /\ ~re_search(SpecialPattern, password) THEN MsgSpecial
    ELSE Returned

\* PasswordValidator.validate: the message it raises, or Returned
validate(policy, password) ==
    IF Len(password) < policy.min_length THEN MsgTooShort
    ELSE IF Len(password) > policy.PASSWORD_MAX_LENGTH THEN MsgTooLong
    ELSE IF policy.require_upper /\ ~re_search(UpperPattern, password) THEN MsgUpper
    ELSE IF policy.require_lower /\ ~re_search(LowerPattern, password) THEN MsgLower
    ELSE IF policy.require_digit /\ ~re_search(DigitPattern, password) THEN MsgDigit
    ELSE IF policy.require_special /\ ~re_search(SpecialPattern, password) THEN MsgSpecial
    ELSE Returned

MinLengths == 1..3
MaxLengths == {PatchedMaxLength, PASSWORD_MAX_LENGTH}

Policies ==
    {PasswordPolicy(mn, mx, u, l, d, s) :
        mn \in MinLengths, mx \in MaxLengths,
        u \in BOOLEAN, l \in BOOLEAN, d \in BOOLEAN, s \in BOOLEAN}

PlainPasswords == UNION {[1..n -> PasswordChars] : n \in 0..MaxPasswordChars}

ValidatorIdle(policy, password) ==
    [policy |-> policy, password |-> password, outcome |-> Pending]

\* a call validator.validate(password)
Validate ==
    /\ validation.outcome = Pending
    /\ validation' = [validation EXCEPT
                         !.outcome = validate(validation.policy, validation.password)]
    /\ UNCHANGED notValidator

InitValidatorIdle ==
    validation = ValidatorIdle(PasswordPolicy(8, PASSWORD_MAX_LENGTH, TRUE, TRUE, TRUE, TRUE), <<>>)

-----------------------------------------------------------------------------
(* Discovery and reload of the registries (hashing/registry.py)            *)

\* the classes the decorators of hashing.policies and hashing.algorithms
\* register when the packages are imported, in import order
BuiltIns(r) ==
    IF r = "algorithm" THEN << <<Argon2Key, "Argon2">>, <<BcryptKey, "Bcrypt">> >>
    ELSE << <<Argon2Key, "Argon2Policy">>, <<BcryptKey, "BcryptPolicy">> >>

\* _loaded and _snapshots_taken before the first load_all; discovered is the
\* history of what the registries held when discovery completed
NotLoaded ==
    [loaded |-> FALSE, snapshots_taken |-> FALSE,
     discovered |-> [r \in Regs |-> << >>]]

RECURSIVE AutoloadInto(_, _)
\* _autoload_package: the decorators of the imported modules run one by one
AutoloadInto(s, classes) ==
    IF classes = << >> THEN s
    ELSE CHOOSE out \in
        {AutoloadInto([reg |-> res.reg,
                       snap |-> SnapshotAfter(s.snap, Head(classes)[1], res.ret),
                       first |-> IF res.outcome = "registered"
                                    /\ s.first[Head(classes)[1]] = None
                                 THEN [s.first EXCEPT ![Head(classes)[1]] = Head(classes)[2]]
                                 ELSE s.first],
                      Tail(classes)) :
         res \in {RegistryRegister(s.reg, Head(classes)[1], Head(classes)[2])}} : TRUE

\* load_all(force)
LoadAll(force) ==
    /\ lastReg' = [op |-> "load_all", reg |-> None, key |-> None, cls |-> None,
                   bound |-> None,
                   outcome |-> IF loadFlags.loaded /\ ~force THEN "no-op"
                               ELSE IF ~loadFlags.snapshots_taken THEN "discovered"
                               ELSE IF force THEN "restored" ELSE "no-op"]
    /\ IF loadFlags.loaded /\ ~force
       THEN UNCHANGED <<registry, snapshots, firstReg, pureReg, loadFlags>>
       ELSE IF ~loadFlags.snapshots_taken
       THEN \E after \in {[r \in Regs |->
                            AutoloadInto([reg |-> registry[r], snap |-> snapshots[r],
                                          first |-> firstReg[r]], BuiltIns(r))]} :
                /\ registry' = [r \in Regs |-> after[r].reg]
                /\ snapshots' = [r \in Regs |-> after[r].snap]
                /\ firstReg' = [r \in Regs |-> after[r].first]
                /\ pureReg' = pureReg
                /\ loadFlags' = [loaded |-> TRUE, snapshots_taken |-> TRUE,
                                 discovered |-> [r \in Regs |-> after[r].reg]]
       ELSE IF force
       THEN /\ registry' = [r \in Regs |-> RestoreFromSnapshots(snapshots[r])]
            /\ pureReg' = [r \in Regs |-> FALSE]
            /\ loadFlags' = [loadFlags EXCEPT !.loaded = TRUE]
            /\ UNCHANGED <<snapshots, firstReg>>
       ELSE /\ loadFlags' = [loadFlags EXCEPT !.loaded = TRUE]
            /\ UNCHANGED <<registry, snapshots, firstReg, pureReg>>
    /\ UNCHANGED <<facadeVars, notFlags>>

\* registry._registry[key] = cls, a binding put in behind the registry's back
DirectBind(r, key, cls) ==
    /\ registry' = [registry EXCEPT ![r] = DictSet(@, key, cls)]
    /\ pureReg' = [pureReg EXCEPT ![r] = FALSE]
    /\ lastReg' = [op |-> "bind", reg |-> r, key |-> key, cls |-> cls,
                   bound |-> None, outcome |-> "done"]
    /\ UNCHANGED <<snapshots, firstReg>>
    /\ UNCHANGED <<facadeVars, toolVars>>

\* the names and the class registered at run time next to the built-in ones
ReloadNames == {Argon2Key, <<"t">>}
LateClass == "TempAlgo"

InitFlagsIdle == loadFlags = NotLoaded

-----------------------------------------------------------------------------
(* Strategy instances of the pepper pipeline                               *)

MaxBuilds == 3

\* the strategy objects built so far are numbered 1..built; used holds, for
\* every apply_pepper call that reached _cached_strategy, its snapshot and
\* the number of the strategy object it was given
NoLog == [built |-> 0, used |-> {}]

\* the same pepper entries in another key order, and next to another key
C_suffixReordered == << <<"PEPPER_SUFFIX", <<"_", "s">>>>, <<"PEPPER_MODE", S_suffix>> >>
C_suffixVariant == C_variantOnly \o C_suffix
CacheConfigs == {C_suffix, C_suffixReordered, C_suffixVariant, C_hmac, C_variantOnly}

\* apply_pepper(password, config), the strategy object it uses being recorded:
\* a call that leaves the lru_cache as it was is served the cached object,
\* any other call builds a new one
ApplyPepperLogged(config, password) ==
    \E r \in {apply_pepper(cache, password, config)} :
        /\ r.cache # cache => pepperLog.built < MaxBuilds
        /\ cache' = r.cache
        /\ last' = [NoCall EXCEPT !.op = "apply_pepper", !.password = password,
                                  !.config = config, !.res = r.res]
        /\ pepperLog' =
            IF password = << >> THEN pepperLog
            ELSE CHOOSE l \in
                    {[built |-> n, used |-> pepperLog.used \cup {<<_snapshot(config), n>>}] :
                     n \in {IF r.cache # cache THEN pepperLog.built + 1
                            ELSE pepperLog.built}} : TRUE
        /\ UNCHANGED <<environ, facades, stored, regVars, notLog>>

InitLogIdle == pepperLog = NoLog

InitToolsIdle ==
    InitLoaderIdle /\ InitBootIdle /\ InitCalIdle /\ InitBenchIdle /\ InitValidatorIdle
    /\ InitRaceIdle
    /\ InitLogIdle

-----------------------------------------------------------------------------
(* Specifications                                                          *)

InitRegEmpty ==
    /\ InitFlagsIdle
    /\ registry = [r \in Regs |-> << >>]
    /\ snapshots = [r \in Regs |-> << >>]
    /\ firstReg = [r \in Regs |-> [k \in RegKeys |-> None]]
    /\ pureReg = [r \in Regs |-> TRUE]
    /\ lastReg = [op |-> "none", reg |-> None, key |-> None, cls |-> None,
                  bound |-> None, outcome |-> None]

\* nothing constructed besides the registries
InitFacadeIdle ==
    /\ environ = << >>
    /\ facades = [i \in FacadeIds |-> NoFacade]
    /\ cache = EmptyCache
    /\ stored = NoStored
    /\ last = NoCall

InitRegistry == InitRegEmpty /\ InitFacadeIdle /\ InitToolsIdle

NextRegistry ==
    \/ \E r \in Regs : \E n \in RegNamesOf(r), c \in Classes : Register(r, n, c)
    \/ \E r \in Regs : DirectClear(r)
    \/ \E r \in Regs : Restore(r)

SpecRegistry == InitRegistry /\ [][NextRegistry]_vars

\* load_all is called, and between its calls classes are registered and the
\* registries cleared or edited
InitLoadAll == InitRegEmpty /\ InitFacadeIdle /\ InitToolsIdle

NextLoadAll ==
    \/ \E force \in BOOLEAN : LoadAll(force)
    \/ \E r \in Regs : \E n \in ReloadNames :
        loadFlags.snapshots_taken /\ Register(r, n, LateClass)
    \/ \E r \in Regs : loadFlags.snapshots_taken /\ DirectClear(r)
    \/ \E r \in Regs : loadFlags.snapshots_taken /\ DirectBind(r, Argon2Key, LateClass)

SpecLoadAll == InitLoadAll /\ [][NextLoadAll]_vars

\* the registries after load_all() and the registration of the test doubles
InitRegDiscovered ==
    /\ loadFlags = [loaded |-> TRUE, snapshots_taken |-> TRUE,
                    discovered |-> [r \in Regs |-> IF r = "algorithm"
                                                   THEN DiscoveredAlgorithms ELSE << >>]]
    /\ registry = [r \in Regs |-> IF r = "algorithm" THEN DiscoveredAlgorithms ELSE << >>]
    /\ snapshots = [r \in Regs |-> IF r = "algorithm" THEN DiscoveredAlgorithms ELSE << >>]
    /\ firstReg = [r \in Regs |-> [k \in RegKeys |-> None]]
    /\ pureReg = [r \in Regs |-> TRUE]
    /\ lastReg = [op |-> "none", reg |-> None, key |-> None, cls |-> None,
                  bound |-> None, outcome |-> None]

\* no facade constructed: apply_pepper(password, os.environ) is called directly
InitPepper ==
    /\ InitRegDiscovered
    /\ InitToolsIdle
    /\ environ \in PepperConfigs
    /\ facades = [i \in FacadeIds |-> NoFacade]
    /\ cache = EmptyCache
    /\ stored = NoStored
    /\ last = NoCall

NextPepper ==
    \E p \in Passwords \cup {<< >>} : ApplyPepper(environ, p)

SpecPepper == InitPepper /\ [][NextPepper]_vars

\* apply_pepper is called with one configuration after another
InitPepperCache ==
    /\ InitRegDiscovered
    /\ InitToolsIdle
    /\ environ = << >>
    /\ facades = [i \in FacadeIds |-> NoFacade]
    /\ cache = EmptyCache
    /\ stored = NoStored
    /\ last = NoCall

NextPepperCache ==
    \E config \in CacheConfigs, p \in Passwords \cup {<< >>} : ApplyPepperLogged(config, p)

SpecPepperCache == InitPepperCache /\ [][NextPepperCache]_vars

\* the facades built from a pair of constructor arguments
FacadesOf(a, b) ==
    [i \in FacadeIds |->
        IF i = 1 THEN AlgorithmInit(DiscoveredAlgorithms, a[1], a[2], a[3])
        ELSE AlgorithmInit(DiscoveredAlgorithms, b[1], b[2], b[3])]

\* two facades of the same algorithm and policy, each with its configuration
RoundTripPairs ==
    {<< <<vp[1], vp[2], c1>>, <<vp[1], vp[2], c2>> >> :
        vp \in {<<Argon2Key, NoPolicy>>,
                <<Argon2Key, Policy("Argon2Policy", ARGON2_MIN_TIME_COST)>>,
                <<<<"B", "c", "r", "y", "p", "t">>, NoPolicy>>,
                <<BcryptKey, Policy("BcryptPolicy", BCRYPT_MIN_ROUNDS)>>},
        c1 \in FacadeConfigs, c2 \in FacadeConfigs}

InitFacade ==
    /\ InitRegDiscovered
    /\ InitToolsIdle
    /\ environ = << >>
    /\ \E pr \in RoundTripPairs : facades = FacadesOf(pr[1], pr[2])
    /\ cache = EmptyCache
    /\ stored = NoStored
    /\ last = NoCall

NextFacade ==
    \/ \E i \in FacadeIds, p \in Passwords, s \in Salts : Hash(i, p, s, FALSE)
    \/ \E i \in FacadeIds, p \in Passwords : Verify(i, "stored", p, FALSE)
    \/ \E e \in EnvironValues : SetEnviron(e)

SpecFacade == InitFacade /\ [][NextFacade]_vars

\* facades of every implementation, with working and failing pepper
\* configurations and differing policies
ContractPairs ==
    {<< <<Argon2Key, NoPolicy, << >>>>,
        <<<<"A", "r", "g", "o", "n", "2">>, Policy("Argon2Policy", ARGON2_MIN_TIME_COST),
          C_hmacNew>> >>,
     << <<BcryptKey, NoPolicy, C_suffix>>,
        <<BcryptKey, Policy("BcryptPolicy", BCRYPT_MIN_ROUNDS), << >>>> >>,
     << <<Argon2Key, NoPolicy, C_variantOnly>>, <<BcryptKey, NoPolicy, C_hmac>> >>,
     << <<DummyKey, NoPolicy, << >>>>, <<NoRehashKey, NoPolicy, << >>>> >>,
     << <<DummyKey, NoPolicy, C_hmacNew>>, <<Argon2Key, NoPolicy, C_suffix>> >>,
     << <<NoRehashKey, NoPolicy, C_suffix>>, <<BcryptKey, NoPolicy, C_hmacNew>> >>}

InitContract ==
    /\ InitRegDiscovered
    /\ InitToolsIdle
    /\ environ = << >>
    /\ \E pr \in ContractPairs : facades = FacadesOf(pr[1], pr[2])
    /\ cache = EmptyCache
    /\ stored = NoStored
    /\ last = NoCall

NextContract ==
    \/ \E i \in FacadeIds, p \in Passwords \cup {<< >>}, fault \in BOOLEAN :
         Hash(i, p, "s1", fault)
    \/ \E i \in FacadeIds, hsel \in {"stored", "empty", "corrupt"},
          p \in Passwords \cup {<< >>}, fault \in BOOLEAN :
         Verify(i, hsel, p, fault)
    \/ \E i \in FacadeIds, hsel \in {"stored", "empty", "corrupt", "old"},
          fault \in BOOLEAN :
         NeedsRehash(i, hsel, fault)

SpecContract == InitContract /\ [][NextContract]_vars

\* a ConfigLoader over each mapping, building each target
InitLoader ==
    /\ InitRegEmpty
    /\ InitFacadeIdle
    /\ InitBootIdle
    /\ InitCalIdle
    /\ InitBenchIdle
    /\ InitValidatorIdle
    /\ InitRaceIdle
    /\ InitLogIdle
    /\ loaderConfig \in LoaderConfigs
    /\ lastBuild = NoBuild

NextLoader == \E t \in Targets, failing \in FailingKeySets : Build(t, failing)

SpecLoader == InitLoader /\ [][NextLoader]_vars

\* several processes of one directory call ensure_env_config at once
InitBootstrap ==
    /\ InitRegEmpty
    /\ InitFacadeIdle
    /\ InitLoaderIdle
    /\ InitCalIdle
    /\ InitBenchIdle
    /\ InitValidatorIdle
    /\ InitRaceIdle
    /\ InitLogIdle
    /\ havePortalocker \in BOOLEAN
    /\ envLocal \in {NoFile, PartialFile}
    /\ lockHolders = {}
    /\ \E auto \in {<<"1">>, <<"0">>} :
        boot = [p \in BootProcs |->
                   BootStart(StartEnviron(IF p = NumProcs THEN auto ELSE <<"1">>))]
    /\ fileOrigin = Unwritten

NextBootstrap ==
    \E p \in BootProcs :
        \/ LoadEnv(p)
        \/ CheckEnv(p)
        \/ Acquire(p)
        \/ Recheck(p)
        \/ Benchmark(p)
        \/ Truncate(p)
        \/ Export(p)
        \/ Unlock(p)

SpecBootstrap == InitBootstrap /\ [][NextBootstrap]_vars

\* one process bootstraps, the file is edited, and the process starts again
InitIntegrity ==
    /\ InitRegEmpty
    /\ InitFacadeIdle
    /\ InitLoaderIdle
    /\ InitCalIdle
    /\ InitBenchIdle
    /\ InitValidatorIdle
    /\ InitRaceIdle
    /\ InitLogIdle
    /\ havePortalocker \in BOOLEAN
    /\ envLocal \in {NoFile, PartialFile}
    /\ lockHolders = {}
    /\ boot = [p \in BootProcs |->
                  IF p = 1 THEN BootStart(StartEnviron(<<"1">>)) ELSE BootIdle]
    /\ fileOrigin = Unwritten

NextIntegrity ==
    \/ \E p \in BootProcs :
        \/ LoadEnv(p)
        \/ CheckEnv(p)
        \/ Acquire(p)
        \/ Recheck(p)
        \/ Benchmark(p)
        \/ Truncate(p)
        \/ Export(p)
        \/ Unlock(p)
        \/ Rerun(p)
    \/ \E key \in TamperKeys, value \in TamperValues : Tamper(key, value)

SpecIntegrity == InitIntegrity /\ [][NextIntegrity]_vars

\* calls of calibrate_argon2 over the cache files and the search arguments
InitCalibrate ==
    /\ InitRegEmpty
    /\ InitFacadeIdle
    /\ InitLoaderIdle
    /\ InitBootIdle
    /\ InitBenchIdle
    /\ InitValidatorIdle
    /\ InitRaceIdle
    /\ InitLogIdle
    /\ \/ \E args \in CacheCalls : cal = CalIdle(args) /\ calFile \in CacheFiles
       \/ \E args \in SearchCalls :
            cal = CalIdle(args) /\ calFile = CacheFile("missing", NoEntry, TRUE)

NextCalibrate ==
    \/ CalStart
    \/ \E elapsed \in Measurements, late \in BOOLEAN : CalMeasure(elapsed, late)
    \/ CalFinish
    \/ \E cpu \in CpuCounts : CalAgain(cpu)

SpecCalibrate == InitCalibrate /\ [][NextCalibrate]_vars

\* a call of calibrate_argon2 that has started keeps running until it returns
SpecCalibrateFair == InitCalibrate /\ [][NextCalibrate]_vars /\ WF_vars(NextCalibrate)

\* the processes of one host call calibrate_argon2 on one cache file at once
InitRace ==
    /\ InitRegEmpty
    /\ InitFacadeIdle
    /\ InitLoaderIdle
    /\ InitBenchIdle
    /\ InitValidatorIdle
    /\ envLocal = NoFile
    /\ lockHolders = {}
    /\ boot = [p \in BootProcs |-> BootIdle]
    /\ fileOrigin = Unwritten
    /\ havePortalocker \in BOOLEAN
    /\ cal = CalIdle(CalArgs(1, 524288, 12, FALSE, FALSE, TRUE, 1))
    /\ calFile \in RaceFiles
    /\ InitRaceIdle
    /\ InitLogIdle

NextRace ==
    \E p \in BootProcs :
        \/ RaceStart(p)
        \/ \E elapsed \in Measurements : RaceMeasure(p, elapsed)
        \/ RaceFinish(p)

SpecRace == InitRace /\ [][NextRace]_vars

\* a grid benchmark over every set of measured medians
InitBench ==
    /\ InitValidatorIdle
    /\ InitRaceIdle
    /\ InitLogIdle
    /\ InitRegEmpty
    /\ InitFacadeIdle
    /\ InitLoaderIdle
    /\ InitBootIdle
    /\ InitCalIdle
    /\ \E rs \in ResultSets, tol \in Tolerances :
        bench = [BenchIdle EXCEPT !.results = rs, !.tolerance = tol]

NextBench == Run

SpecBench == InitBench /\ [][NextBench]_vars

\* a validator of each policy is given each password
InitValidator ==
    /\ InitRegEmpty
    /\ InitFacadeIdle
    /\ InitLoaderIdle
    /\ InitBootIdle
    /\ InitCalIdle
    /\ InitBenchIdle
    /\ InitRaceIdle
    /\ InitLogIdle
    /\ \E policy \in Policies, password \in PlainPasswords :
        validation = ValidatorIdle(policy, password)

NextValidator == Validate

SpecValidator == InitValidator /\ [][NextValidator]_vars

-----------------------------------------------------------------------------
(* Registry properties                                                     *)

\* the registry the last registry operation acted on
LastRegistry == registry[lastReg.reg]

\* C4: registering a type under a key that is bound to a different type
\* fails with RegistryConflictError and leaves the existing binding in place
C4_ConflictRaises ==
    (lastReg.op = "register" /\ lastReg.bound # None /\ lastReg.bound # lastReg.cls)
        => /\ lastReg.outcome = "RegistryConflictError"
           /\ DictGet(LastRegistry, lastReg.key) = lastReg.bound

\* C5: immediately after restore_from_snapshots every key is bound to the
\* type of its first successful registration, and only such keys are bound
C5_RestoreReinstatesFirst ==
    lastReg.op = "restore"
        => \A k \in RegKeys :
             IF firstReg[lastReg.reg][k] = None THEN ~DictHas(LastRegistry, k)
             ELSE /\ DictHas(LastRegistry, k)
                  /\ DictGet(LastRegistry, k) = firstReg[lastReg.reg][k]

\* one binding per key, and it is the first type registered under the key
OneBindingFirstWins(r) ==
    /\ \A i, j \in 1..Len(registry[r]) : registry[r][i][1] = registry[r][j][1] => i = j
    /\ \A k \in RegKeys :
         IF firstReg[r][k] = None THEN ~DictHas(registry[r], k)
         ELSE DictHas(registry[r], k) /\ DictGet(registry[r], k) = firstReg[r][k]

\* a register call on a registry that only register calls have touched
C6_Step ==
    \A r \in Regs :
        (lastReg'.op = "register" /\ lastReg'.reg = r /\ pureReg'[r])
            => /\ OneBindingFirstWins(r)'
               /\ lastReg'.outcome \in {"registered", "skipped"}
               /\ lastReg'.bound = lastReg'.cls
                    => /\ registry'[r] = registry[r]
                       /\ DictList(registry'[r]) = DictList(registry[r])

\* C6: after any sequence of register calls every key has exactly one
\* binding, the first type registered under it, and registering the same type
\* again changes neither the binding nor the list of keys and raises nothing
C6_OneBindingPerKey == [][C6_Step]_vars

\* the same type was registered again under a key of a registry with two keys
C6_Witness ==
    /\ lastReg.op = "register"
    /\ pureReg[lastReg.reg]
    /\ lastReg.outcome = "skipped"
    /\ lastReg.bound = lastReg.cls
    /\ Len(LastRegistry) = 2

-----------------------------------------------------------------------------
(* Pepper pipeline properties                                              *)

\* C2: for every configuration mapping and every password apply_pepper
\* returns a string and never raises, and it returns the password unchanged
\* whenever the strategy cannot be built from the configuration
C2_ApplyPepperNeverRaises ==
    last.op = "apply_pepper"
        => /\ last.res.ok
           /\ (\/ ~_build_config(_snapshot(last.config)).ok
               \/ ~build_pepper_strategy(_build_config(_snapshot(last.config)).cfg).ok)
                => last.res.out = last.password

\* pepper is enabled, PEPPER_MODE is hmac, PEPPER_HMAC_KEY is a non-empty
\* string and the digest algorithm is a supported one (or left to its default)
HmacConfigured(config) ==
    /\ DictHas(config, "PEPPER_MODE") /\ DictGet(config, "PEPPER_MODE") = S_hmac
    /\ DictHas(config, "PEPPER_ENABLED") => DictGet(config, "PEPPER_ENABLED") = S_true
    /\ DictHas(config, "PEPPER_HMAC_KEY") /\ DictGet(config, "PEPPER_HMAC_KEY") # << >>
    /\ DictHas(config, "PEPPER_HMAC_ALGO")
         => DictGet(config, "PEPPER_HMAC_ALGO") \in HashlibDigests

\* the digest algorithm a configuration names
ConfiguredAlgo(config) ==
    IF DictHas(config, "PEPPER_HMAC_ALGO") THEN DictGet(config, "PEPPER_HMAC_ALGO")
    ELSE Sha256

\* C10: under an enabled hmac configuration with a non-empty key string and a
\* supported digest, apply_pepper returns for every non-empty password the hex
\* HMAC computed with exactly the configured key string, never the password
\* unchanged
C10_HmacUsesConfiguredKey ==
    (last.op = "apply_pepper" /\ last.password # << >> /\ HmacConfigured(last.config))
        => /\ last.res.ok
           /\ last.res.out = HmacHex(ConfiguredAlgo(last.config),
                                     DictGet(last.config, "PEPPER_HMAC_KEY"),
                                     last.password)
           /\ last.res.out # last.password

-----------------------------------------------------------------------------
(* Facade properties                                                       *)

\* the last call verified the stored hash through the facade that produced
\* it, under the configuration mapping it was produced with
SameFacadeVerify ==
    /\ last.op = "verify" /\ last.hsel = "stored" /\ ~last.fault
    /\ stored.by = last.f /\ stored.config = last.config

\* C1: for argon2 and bcrypt, every valid policy, every pepper configuration
\* and every non-empty password p, hash(p) returns a hash, and with the
\* configuration mapping unchanged verify(hash(p), p) returns true and
\* verify(hash(p), p + "x") returns false
C1_RoundTrip ==
    /\ (last.op = "hash" /\ last.password # << >> /\ ~last.fault
        /\ facades[last.f].cls \in {"Argon2", "Bcrypt"})
            => last.res.ok
    /\ (SameFacadeVerify /\ last.password = stored.password)
            => last.res.ok /\ last.res.value
    /\ (SameFacadeVerify /\ last.password = stored.password \o <<"x">>)
            => last.res.ok /\ ~last.res.value

\* the string apply_pepper gives for a password under a configuration, from
\* an empty cache
PepperOut(config, password) == apply_pepper(EmptyCache, password, config).res

\* the last call verified, with the password that was hashed, the stored hash
\* through the other facade (same algorithm and policy)
CrossVerify ==
    /\ last.op = "verify" /\ last.hsel = "stored" /\ ~last.fault
    /\ stored.by # last.f
    /\ facades[stored.by].cls = facades[last.f].cls
    /\ facades[stored.by].policy = facades[last.f].policy
    /\ last.password = stored.password

C7_HashErrorContract ==
    last.op = "hash"
        => /\ last.res.ok => last.called /\ last.impl.ok /\ last.res.value = last.impl.value
           /\ ~last.res.ok => last.res.exc = "HashingError"
           /\ last.password = << >> => ~last.res.ok /\ ~last.called
           /\ (last.called /\ ~last.impl.ok)
                => /\ ~last.res.ok
                   /\ last.impl.exc # "HashingError" => last.res.cause = last.impl.exc

\* the implementation raised RuntimeError inside hash
C7_Witness ==
    /\ last.op = "hash" /\ last.called /\ ~last.impl.ok
    /\ last.impl.exc = "RuntimeError"
    /\ last.res.exc = "HashingError" /\ last.res.cause = "RuntimeError"

\* C8: Algorithm.verify returns false, without raising or calling the
\* implementation, when the stored hash or the password is empty; it returns
\* the answer of the implementation (false for a mismatch); any other failure
\* of the implementation raises VerificationError, never another exception
\* and never a silent false
C8_VerifyErrorContract ==
    last.op = "verify"
        => /\ (HashArg(last.hsel).kind = "empty" \/ last.password = << >>)
                => last.res.ok /\ ~last.res.value /\ ~last.called
           /\ (last.called /\ last.impl.ok) => last.res = last.impl
           /\ (last.called /\ ~last.impl.ok)
                => ~last.res.ok /\ last.res.exc = "VerificationError"
           /\ ~last.res.ok => last.res.exc = "VerificationError"

\* the implementation failed inside verify with something that is not a
\* mismatch
C8_Witness ==
    /\ last.op = "verify" /\ last.called /\ ~last.impl.ok
    /\ last.impl.exc = "RuntimeError"
    /\ ~last.res.ok /\ last.res.exc = "VerificationError"

\* C9: Algorithm.needs_rehash never raises: false when the implementation has
\* no needs_rehash or when its needs_rehash raises, otherwise the answer of
\* the implementation
C9_NeedsRehashNeverRaises ==
    last.op = "needs_rehash"
        => /\ last.res.ok
           /\ ~HasNeedsRehash(facades[last.f].cls) => ~last.res.value /\ ~last.called
           /\ HasNeedsRehash(facades[last.f].cls) => last.called
           /\ (last.called /\ ~last.impl.ok) => ~last.res.value
           /\ (last.called /\ last.impl.ok) => last.res.value = last.impl.value

\* needs_rehash of the implementation raised
C9_Witness ==
    /\ last.op = "needs_rehash" /\ last.called /\ ~last.impl.ok
    /\ last.res.ok /\ ~last.res.value

-----------------------------------------------------------------------------
(* Object builder properties                                               *)

\* the keys of the target's parameters that have a problem under the mapping:
\* required and missing, or present with a value that does not become an int
ProblemKeys(target, mapping, failing) ==
    {TargetParams(target)[i].key : i \in
        {j \in 1..Len(TargetParams(target)) :
            LET p == TargetParams(target)[j]
            IN  IF DictHas(mapping, p.key)
                THEN p.key \in failing \/ ~CoerceInt(Convert(DictGet(mapping, p.key))).ok
                ELSE p.required}}

NamedKeys(res) == {res.errors[i][2] : i \in 1..Len(res.errors)}

\* C11: a build over a mapping with missing required keys or unconvertible
\* values raises one ConfigValidationError that names every such key, and the
\* target is not constructed
C11_BuildNamesEveryProblem ==
    (lastBuild.op = "build"
     /\ ProblemKeys(lastBuild.target, loaderConfig, lastBuild.failing) # {})
        => /\ lastBuild.res.exc = "ConfigValidationError"
           /\ ~lastBuild.res.constructed
           /\ NamedKeys(lastBuild.res) =
                  ProblemKeys(lastBuild.target, loaderConfig, lastBuild.failing)

\* C12: build returns an instance or raises ConfigValidationError; an error of
\* the target's constructor is wrapped with the original as its cause
C12_BuildErrorContract ==
    lastBuild.op = "build"
        => /\ lastBuild.res.ok \/ lastBuild.res.exc = "ConfigValidationError"
           /\ (lastBuild.res.constructed /\ ~lastBuild.res.ok)
                  => /\ lastBuild.res.exc = "ConfigValidationError"
                     /\ lastBuild.res.cause = "ValueError"

\* the constructor of Strict rejected the collected value and build wrapped it
C12_Witness ==
    /\ lastBuild.op = "build"
    /\ lastBuild.target = "Strict"
    /\ lastBuild.res.constructed
    /\ lastBuild.res.exc = "ConfigValidationError"
    /\ lastBuild.res.cause = "ValueError"

-----------------------------------------------------------------------------
(* Bootstrap properties                                                    *)

\* the processes between the re-check and the release of the lock
InSection == {p \in BootProcs : boot[p].pc \in {"recheck", "bench", "export", "write", "unlock"}}

\* C13: with portalocker the section from the re-check to the export is
\* mutually exclusive, at most one process benchmarks successfully and writes
\* .env.local, and a process that acquires the lock after the export finds the
\* required keys and leaves without benchmarking or writing
C13_BootstrapExclusive ==
    havePortalocker
        => /\ Cardinality(InSection) <= 1
           /\ Cardinality({p \in BootProcs : boot[p].benchmarked}) <= 1
           /\ Cardinality({p \in BootProcs : boot[p].wrote}) <= 1
           /\ \A p \in BootProcs :
                boot[p].late
                    => /\ ~boot[p].benchmarked
                       /\ ~boot[p].wrote
                       /\ boot[p].pc \in {"recheck", "unlock", "done"}
                       /\ boot[p].pc \in {"unlock", "done"} => boot[p].skipped

\* one process has exported and another acquired the lock afterwards and skipped
C13_Witness ==
    /\ havePortalocker
    /\ \E p, q \in BootProcs :
        /\ p # q
        /\ boot[q].wrote
        /\ boot[p].late
        /\ boot[p].skipped
        /\ boot[p].pc = "done"

\* the file is as some process exported it
AsGenerated == fileOrigin.by # 0 /\ fileOrigin.tamper = NoTamper /\ envLocal.lines # << >>

\* the written digest is the digest of the other entries, and a validation of
\* the file as generated logs no warning
DigestOfOthers ==
    /\ AsGenerated
        => \E kv \in {ParseEnvLines(envLocal.lines, << >>)} :
            /\ DictHas(kv, K_SHA)
            /\ DictGet(kv, K_SHA) = _sha256_of(DictPop(kv, K_SHA))
            /\ kv = boot[fileOrigin.by].env_config
    /\ \A p \in BootProcs :
        (boot[p].pc = "done" /\ boot[p].saw.by # 0 /\ boot[p].saw.tamper = NoTamper)
            => ~boot[p].warned

\* C14 as stated: a validation after the value of any other key was changed
\* logs the integrity warning
C14_AsStated ==
    /\ DigestOfOthers
    /\ \A p \in BootProcs :
        (boot[p].pc = "done" /\ boot[p].saw.tamper # NoTamper) => boot[p].warned

\* C14: GENERATED_SHA256 is the digest of the sorted key=value lines of the
\* other entries, validating the generated file logs no warning, and after the
\* value of another key was changed the validation logs the warning exactly
\* when the new value differs from the old one after stripping whitespace
C14_IntegrityDigest ==
    /\ DigestOfOthers
    /\ \A p \in BootProcs :
        (boot[p].pc = "done" /\ boot[p].saw.tamper # NoTamper)
            => (boot[p].warned <=> Strip(boot[p].saw.tamper.new) # boot[p].saw.tamper.old)

\* a changed value was validated and the warning logged
C14_Witness ==
    \E p \in BootProcs :
        /\ boot[p].pc = "done"
        /\ boot[p].saw.tamper # NoTamper
        /\ boot[p].saw.tamper.key = K_TIME
        /\ boot[p].warned

-----------------------------------------------------------------------------
(* Calibration properties                                                  *)

\* C15: a call of calibrate_argon2 never fails because of the cache file: it
\* returns a result whatever the state of the file and of its directory
C15_CacheFailureNeverFatal == cal.pc = "done" => cal.res.ok

\* the cache file the call found holds an argon2 entry whose cpu count is
\* positive and within 50% of the current one
UsableEntry ==
    /\ cal.seen.kind = "object"
    /\ cal.seen.entry.present
    /\ cal.seen.entry.cpu_count > 0
    /\ cal.seen.entry.cpu_count <= 2 * cal.args.cpu_count
    /\ 2 * cal.args.cpu_count <= 3 * cal.seen.entry.cpu_count

\* the call returned the cached entry without measuring
ReturnedCached ==
    /\ cal.res.ok
    /\ cal.res.from_cache
    /\ cal.res.iterations = 0
    /\ ~cal.measured
    /\ cal.res.time_cost = cal.seen.entry.time_cost
    /\ cal.res.memory_cost = cal.seen.entry.memory_cost
    /\ cal.res.parallelism = cal.seen.entry.parallelism

\* C16: with allow_cache and without force a call returns the cached entry
\* without measuring iff the file holds a usable entry, and runs the search in
\* every other case and whenever force is set or allow_cache is not
C16_CacheHitIffUsable ==
    cal.pc = "done"
        => IF cal.args.allow_cache /\ ~cal.args.force /\ UsableEntry
           THEN ReturnedCached
           ELSE cal.measured /\ ~cal.res.from_cache

\* a lever before and after a step
Raised(lever) == cal'[lever] > cal[lever]
Lowered(lever) == cal'[lever] < cal[lever]
Levers == {"time_cost", "memory_cost", "parallelism"}

\* the step is a measurement below target_lower_ms / above target_upper_ms
MeasuredBelow == cal.pc = "loop" /\ cal'.iteration = cal.iteration + 1 /\ cal'.elapsed < TARGET_LOWER_MS
MeasuredAbove == cal.pc = "loop" /\ cal'.iteration = cal.iteration + 1 /\ cal'.elapsed > TARGET_UPPER_MS

\* the conditions C19 puts on each lever that is raised
RaisedInPriority ==
    /\ Raised("time_cost")
        => cal.time_cost < cal.args.max_time_cost /\ cal'.time_cost = cal.time_cost + 1
    /\ Raised("memory_cost")
        => /\ cal.time_cost = cal.args.max_time_cost
           /\ cal'.memory_cost = Min((cal.memory_cost * 3) \div 2, cal.args.max_memory_kib)
    /\ Raised("parallelism")
        => /\ cal.time_cost = cal.args.max_time_cost
           /\ cal.memory_cost = cal.args.max_memory_kib
           /\ cal.parallelism < Min(MAX_PARALLELISM, cal.args.cpu_count)
           /\ cal'.parallelism = cal.parallelism + 1
    /\ \A l \in Levers : ~Lowered(l)

C19_StatedStep ==
    MeasuredBelow => Cardinality({l \in Levers : Raised(l)}) = 1 /\ RaisedInPriority

\* C19 as stated: every measurement below target_lower_ms raises exactly one lever
C19_AsStated == [][C19_StatedStep]_vars

\* some lever can still be raised
CanEscalate ==
    \/ cal.time_cost < cal.args.max_time_cost
    \/ cal.memory_cost < cal.args.max_memory_kib
    \/ cal.args.enable_parallelism /\ cal.parallelism < Min(MAX_PARALLELISM, cal.args.cpu_count)

C19_Step ==
    MeasuredBelow
        => /\ RaisedInPriority
           /\ IF CanEscalate
              THEN /\ Cardinality({l \in Levers : Raised(l)}) = 1
                   /\ cal.time_cost < cal.args.max_time_cost => Raised("time_cost")
                   /\ (cal.time_cost = cal.args.max_time_cost
                       /\ cal.memory_cost < cal.args.max_memory_kib) => Raised("memory_cost")
              ELSE /\ \A l \in Levers : cal'[l] = cal[l]
                   /\ cal'.limited
                   /\ cal'.pc = "finish"

\* C19: a measurement below target_lower_ms raises exactly one lever, the first
\* that can be raised of time_cost (by 1, below max_time_cost), memory_cost
\* (times 1.5, capped at max_memory_kib, with time_cost at its ceiling) and
\* parallelism (by 1, with both at their ceilings, parallelism tuning enabled
\* and parallelism below min(4, CPU count)); when none can be raised the search
\* stops as limited and raises nothing
C19_EscalationPriority == [][C19_Step]_vars

\* memory_cost and then parallelism have been raised by the search
C19_Witness ==
    /\ cal.pc = "loop"
    /\ cal.time_cost = cal.args.max_time_cost
    /\ cal.memory_cost = cal.args.max_memory_kib
    /\ cal.memory_cost > START_MEMORY_COST
    /\ cal.parallelism > START_PARALLELISM
    /\ cal.elapsed < TARGET_LOWER_MS

\* some lever is above its floor
AboveFloor ==
    \/ cal.memory_cost > START_MEMORY_COST
    \/ cal.time_cost > START_TIME_COST
    \/ cal.args.enable_parallelism /\ cal.parallelism > 1

C20_Step ==
    (MeasuredAbove /\ AboveFloor)
        => /\ Cardinality({l \in Levers : Lowered(l)}) = 1
           /\ \A l \in Levers : ~Raised(l)
           /\ Lowered("time_cost") => cal.memory_cost = START_MEMORY_COST
           /\ Lowered("parallelism")
                => cal.memory_cost = START_MEMORY_COST /\ cal.time_cost = START_TIME_COST
           /\ cal'.memory_cost >= START_MEMORY_COST
           /\ cal'.time_cost >= START_TIME_COST
           /\ cal'.parallelism >= 1

\* C20: a measurement above target_upper_ms, with some lever above its floor,
\* lowers exactly one lever, in the order memory_cost, time_cost, parallelism:
\* time_cost only with memory_cost at its floor 65536, parallelism only with
\* both at their floors, none below its floor
C20_DeescalationOrder == [][C20_Step]_vars

-----------------------------------------------------------------------------
(* Grid benchmark properties                                               *)

\* the ids of the collected results inside the window
WindowIds ==
    {bench.results[i].id : i \in
        {j \in 1..Len(bench.results) :
            InWindow(bench.results[j], BENCH_TARGET_MS, bench.tolerance)}}

\* the sum of squared deviations of the normalized positions of a result, times 4
Spread(r) ==
    LET p1 == (r.policy[1] - 1)
        p2 == (r.policy[2] - 1) * 2
    IN  (p1 - p2) * (p1 - p2) * 2

\* C17: best is one of the collected results; with results inside the window
\* it is a most balanced one of exactly those, otherwise a closest one of all;
\* near is the in-window results, in order, without best
C17_BestAndNear ==
    bench.done
        => /\ \E i \in 1..Len(bench.results) : bench.results[i] = bench.out.best
           /\ IF WindowIds # {}
              THEN /\ bench.out.best.id \in WindowIds
                   /\ \A i \in WindowIds :
                        Spread(bench.out.best) <= Spread(bench.results[i])
              ELSE \A i \in 1..Len(bench.results) :
                        Abs(bench.out.best.median - BENCH_TARGET_MS)
                            <= Abs(bench.results[i].median - BENCH_TARGET_MS)
           /\ {bench.out.near[i].id : i \in 1..Len(bench.out.near)}
                  = WindowIds \ {bench.out.best.id}
           /\ \A i, j \in 1..Len(bench.out.near) :
                i < j => bench.out.near[i].id < bench.out.near[j].id

\* several results are inside the window and the closest of them is not the
\* most balanced
C17_Witness ==
    /\ bench.done
    /\ Cardinality(WindowIds) >= 3
    /\ Len(bench.out.near) = Cardinality(WindowIds) - 1
    /\ bench.out.best # closest(bench.results, BENCH_TARGET_MS)

-----------------------------------------------------------------------------
(* Password validator properties                                           *)

\* the rules in the order the specification gives them
RuleOrder == <<"length", "uppercase", "lowercase", "digit", "special">>

\* the password breaks the rule under the policy
Violates(rule, policy, password) ==
    CASE rule = "length" ->
            \/ Len(password) < policy.min_length
            \/ Len(password) > policy.PASSWORD_MAX_LENGTH
      [] rule = "uppercase" ->
            policy.require_upper /\ \A i \in DOMAIN password : password[i] \notin UpperPattern
      [] rule = "lowercase" ->
            policy.require_lower /\ \A i \in DOMAIN password : password[i] \notin LowerPattern
      [] rule = "digit" ->
            policy.require_digit /\ \A i \in DOMAIN password : password[i] \notin DigitPattern
      [] rule = "special" ->
            policy.require_special /\ \A i \in DOMAIN password : password[i] \notin SpecialPattern

\* the rule a message names
RuleNamed(message) ==
    CASE message \in {MsgTooShort, MsgTooLong} -> "length"
      [] message = MsgUpper -> "uppercase"
      [] message = MsgLower -> "lowercase"
      [] message = MsgDigit -> "digit"
      [] message = MsgSpecial -> "special"
      [] OTHER -> None

ViolatedRules ==
    {k \in DOMAIN RuleOrder : Violates(RuleOrder[k], validation.policy, validation.password)}

\* C18: validate raises for exactly the first rule, in the order length,
\* uppercase, lowercase, digit, special, that the password violates, with a
\* message naming that rule, and returns if and only if no enabled rule is
\* violated
C18_FirstViolationRaised ==
    validation.outcome # Pending =>
        /\ (validation.outcome = Returned) <=> (ViolatedRules = {})
        /\ validation.outcome # Returned =>
            \E k \in ViolatedRules :
                /\ RuleNamed(validation.outcome) = RuleOrder[k]
                /\ \A j \in ViolatedRules : k <= j

\* a password that breaks both the lower-case and the digit rule is
\* rejected for the lower-case rule
C18_Witness ==
    /\ validation.outcome = MsgLower
    /\ Violates("digit", validation.policy, validation.password)
    /\ Violates("special", validation.policy, validation.password)
    /\ validation.policy.require_upper

-----------------------------------------------------------------------------
(* Calibration search properties                                           *)

\* the parameters the call holds, as a triple
ParamsOf(c) ==
    [time_cost |-> c.time_cost, memory_cost |-> c.memory_cost, parallelism |-> c.parallelism]

\* a freshly calibrated result has been returned
Calibrated == cal.pc = "done" /\ cal.res.ok /\ ~cal.res.from_cache

OutsideWindow(ms) == ms < TARGET_LOWER_MS \/ ms > TARGET_UPPER_MS

C21_Step ==
    /\ ((MeasuredBelow /\ ~CanEscalate) \/ (MeasuredAbove /\ ~AboveFloor))
        => /\ cal'.pc = "finish"
           /\ cal'.best = [set |-> TRUE, time_cost |-> cal.time_cost,
                           memory_cost |-> cal.memory_cost, parallelism |-> cal.parallelism,
                           measured_ms |-> cal'.elapsed, iterations |-> cal.iteration + 1,
                           limited |-> TRUE]
    /\ (cal.pc = "finish" /\ cal.best.set /\ cal.best.limited /\ cal'.pc = "done"
            /\ cal'.res.ok)
        => /\ cal'.res.limited
           /\ ParamsOf(cal'.res) = cal.at
           /\ cal'.res.measured_ms = cal.elapsed
           /\ cal'.res.iterations = cal.iteration

C22_Bound ==
    /\ cal.pc \in {"loop", "finish"} => cal.iteration <= cal.args.max_iters
    /\ cal.pc = "finish" => cal.iteration >= 1
    /\ Calibrated
        => /\ cal.measured
           /\ cal.iteration >= 1
           /\ cal.iteration <= cal.args.max_iters
           /\ cal.res.iterations <= cal.args.max_iters

C23_Step ==
    (/\ cal.pc = "loop"
     /\ cal'.iteration = cal.iteration + 1
     /\ cal'.late
     /\ OutsideWindow(cal'.elapsed)
     /\ cal'.iteration < cal.args.max_iters)
        => cal'.pc = "finish"

\* C23: the fast-fail stop takes effect: when the wall clock has passed
\* fast_fail_seconds after a measurement outside the window, the search ends
\* at that pass, before max_iters measurements are taken
C23_FastFailStops == [][C23_Step]_vars

\* no search is ever left through the fast-fail test
FastFailUnreachable == cal.exit # "fast-fail" /\ (cal.pc = "loop" => ~cal.best.set)

ParamsInRange(t, a) ==
    /\ START_TIME_COST <= t.time_cost /\ t.time_cost <= a.max_time_cost
    /\ START_MEMORY_COST <= t.memory_cost /\ t.memory_cost <= a.max_memory_kib
    /\ 1 <= t.parallelism /\ t.parallelism <= Min(MAX_PARALLELISM, a.cpu_count)
    /\ ~a.enable_parallelism => t.parallelism = 1

\* C27: with max_time_cost >= 2 and max_memory_kib >= 65536, the parameters
\* of every measurement and of every calibrated result have time_cost in
\* 2..max_time_cost, memory_cost in 65536..max_memory_kib and parallelism in
\* 1..min(4, CPU count), parallelism being 1 when it is disabled
C27_ParamsInRange ==
    (cal.args.max_time_cost >= START_TIME_COST /\ cal.args.max_memory_kib >= START_MEMORY_COST)
        => /\ cal.pc = "loop" => ParamsInRange(ParamsOf(cal), cal.args)
           /\ (cal.pc \in {"loop", "finish", "done"} /\ cal.measured)
                => ParamsInRange(cal.at, cal.args)
           /\ Calibrated => ParamsInRange(ParamsOf(cal.res), cal.args)

\* memory_cost was capped at a max_memory_kib that is no multiple of 1.5
C27_Witness ==
    /\ cal.pc = "loop"
    /\ cal.measured
    /\ cal.at.memory_cost = 150000
    /\ cal.at.parallelism = MAX_PARALLELISM

\* C28: the measured_ms of a calibrated result is the duration measured
\* with exactly the returned time_cost, memory_cost and parallelism
C28_MeasuredWithReturned ==
    Calibrated => ParamsOf(cal.res) = cal.at /\ cal.res.measured_ms = cal.elapsed

\* C29: a calibrated result with limited = false has measured_ms inside
\* [target_lower_ms, target_upper_ms]
C29_UnlimitedInWindow ==
    (Calibrated /\ ~cal.res.limited) => ~OutsideWindow(cal.res.measured_ms)

-----------------------------------------------------------------------------
(* Concurrent calibration properties                                       *)

\* the processes that ran a search of their own
Searchers == {p \in BootProcs : race[p].pc \in {"loop", "finish", "done"} /\ race[p].exit # None}

\* the entry process p saved is the one the file holds
HoldsEntryOf(p) ==
    /\ calFile.entry.present
    /\ ParamsOf(calFile.entry) = ParamsOf(race[p].res)
    /\ calFile.entry.measured_ms = race[p].res.measured_ms

\* C24: with a locking capability, of the processes that call
\* calibrate_argon2 at once on one cache file with no usable entry, only the
\* first calibrates, the others reuse its entry, and no saved entry is
\* overwritten by another save
C24_CacheUnderLock ==
    havePortalocker
        => /\ Cardinality(Searchers) <= 1
           /\ \A p \in BootProcs :
                (race[p].pc = "done" /\ race[p].res.ok) => HoldsEntryOf(p)

-----------------------------------------------------------------------------
(* Strategy cache properties                                               *)

\* C25: any two apply_pepper calls whose PEPPER_ entries are equal as a set
\* of (key, string value) pairs use the same strategy object, whatever the
\* key order of their mappings and whatever configurations were used between
\* them: a strategy is built once per distinct snapshot
C25_OneInstancePerSnapshot ==
    \A u, v \in pepperLog.used : u[1] = v[1] => u[2] = v[2]

\* two calls in a row with the same PEPPER_ entries use the same strategy object
ConsecutiveCallsShare ==
    [][(last.op = "apply_pepper" /\ last.password # << >> /\ last'.password # << >>
        /\ _snapshot(last.config) = _snapshot(last'.config))
        => pepperLog'.built = pepperLog.built]_vars

-----------------------------------------------------------------------------
(* Reload properties                                                       *)

\* a load_all call made after discovery has completed
LaterLoadAll == loadFlags.snapshots_taken /\ lastReg'.op = "load_all"

\* the registry holds exactly the bindings of the snapshot list
HoldsSnapshots(d, s) ==
    /\ \A i \in 1..Len(d) : SnapshotHas(s, d[i][1], d[i][2])
    /\ \A i \in 1..Len(s) : DictHas(d, s[i][1])

\* the built-in keys are bound to the classes they had after discovery
BuiltInsAsDiscovered(r, d) ==
    \A i \in 1..Len(BuiltIns(r)) :
        LET k == BuiltIns(r)[i][1] IN
        /\ DictHas(d, k)
        /\ DictGet(d, k) = DictGet(loadFlags.discovered[r], k)

C26_Step ==
    LaterLoadAll
        => IF lastReg'.outcome = "no-op" THEN registry' = registry
           ELSE \A r \in Regs :
                    /\ HoldsSnapshots(registry'[r], snapshots[r])
                    /\ BuiltInsAsDiscovered(r, registry'[r])

\* C26: after discovery, load_all(force=False) leaves both registries as
\* they are, and load_all(force=True) leaves both holding exactly the
\* snapshot bindings, every built-in key bound to the class object it had
\* after discovery
C26_ReloadRestoresDiscovered == [][C26_Step]_vars

\* the same, for reloads with the snapshot lists as discovery left them
ReloadWithoutLateRegistration ==
    [][(\A r \in Regs : snapshots[r] = BuiltIns(r)) => C26_Step]_vars

-----------------------------------------------------------------------------
(* Configuration isolation properties                                      *)

\* the password as the pepper of the mapping alone transforms it
PepperedWith(config, password) == apply_pepper(EmptyCache, password, config).res

\* C30: a facade constructed with a configuration mapping takes its pepper
\* from that mapping only: whatever os.environ holds, hash and verify use the
\* PEPPER_ entries of the mapping, and the hash of a password is derived from
\* the password as that mapping peppers it (unchanged for an empty mapping)
C30_PepperFromMappingOnly ==
    /\ last.op \in {"hash", "verify"}
        => _snapshot(last.config) = _snapshot(facades[last.f].config)
    /\ (stored.valid /\ PepperedWith(facades[stored.by].config, stored.password).ok)
        => stored.hash.pw = PepperedWith(facades[stored.by].config, stored.password).out

\* the same, for facades whose mapping is not empty
NonEmptyMappingIsolated ==
    /\ (last.op \in {"hash", "verify"} /\ facades[last.f].config # << >>)
        => _snapshot(last.config) = _snapshot(facades[last.f].config)
    /\ (stored.valid /\ facades[stored.by].config # << >>
        /\ PepperedWith(facades[stored.by].config, stored.password).ok)
        => stored.hash.pw = PepperedWith(facades[stored.by].config, stored.password).out

====
